---- MODULE Spec2Model ----
(***************************************************************************)
(* Schema-mapping and record-reconciliation pipeline.                      *)
(*                                                                         *)
(*   DataProcessor (data-pipeline/processor): mergeRecords,                *)
(*                 detectConflicts, validateSchema, calculateSimilarity    *)
(*   DataMapper    (data-mapping/data-mapper): validateAndMapData,         *)
(*                 transferDataToStudentTable, the audit trail             *)
(*   DataMappingManager: the save flow (handleSaveAllMappings)             *)
(*   EnhancedFileUploader: mapRecordToStudent, mergeStudents               *)
(*                                                                         *)
(* JavaScript values are tagged records [t, v]; a JavaScript object is a   *)
(* function from its own keys to values.  Numbers that carry a fraction    *)
(* (cgpa) are held in tenths, so 8.5 is Num(85).                           *)
(***************************************************************************)
EXTENDS Integers, Sequences, FiniteSets, TLC

VARIABLES
    \* ---- DataMapper and its caller ----
    existingStudents,   \* the caller's record collection (Student[])
    auditTrail,         \* DataMapper.auditTrail
    validation,         \* the MappingValidationResult last returned
    transfer,           \* the DataTransferResult last returned, with the locals of that call
    trailCopy,          \* the array last returned by getAuditTrail
    heldTrail,          \* the auditTrail of the first DataTransferResult, as its holder reads it
    uuidCounter,        \* number of uuidv4() values handed out
    now,                \* the clock read by new Date()
    pc,                 \* where the save flow stands: "idle", "validated", "transferred"
    currentStep,        \* the step the save flow shows (setCurrentStep)
    mappingsProp,       \* the columnMappings the last validation was given
    rawDataProp,        \* the rawData the last validation was given
    \* ---- DataProcessor.mergeRecords applied to drawn inputs ----
    mrExisting, mrIncoming, mrStrategy, mrResult,
    mrConflicts,        \* the conflicts detectConflicts found between the two records
    \* ---- EnhancedFileUploader ----
    upNewStudents,      \* the students the last upload mapped from the processed records
    upFiles,            \* the files the uploader holds (files state)
    upNewColumns,       \* the column mappings the uploader shows (newColumns state)
    upColumnMappings,   \* the Map of saved mappings (columnMappings state)
    upToast,            \* the title of the toast last shown
    \* ---- the module-level DataProcessor ----
    processingStats,    \* the ProcessingStats objects made so far; the last is this.processingStats
    cache,              \* cache.get('latest')
    calls,              \* the processFiles invocations: position, files, records, result
    \* ---- DataProcessor.validateSchema applied to drawn headers ----
    scHeaders,          \* the header row of a sheet
    scOverrides,        \* the headers options.columnMappings holds
    scResult,           \* the SchemaValidationResult
    \* ---- DataProcessor.calculateSimilarity applied to drawn strings ----
    simStr1, simStr2,   \* the two strings
    simScore            \* their editDistance and their similarity

vars == <<existingStudents, auditTrail, validation, transfer, trailCopy, heldTrail,
          uuidCounter, now, pc, currentStep, mappingsProp, rawDataProp, mrExisting, mrIncoming, mrStrategy, mrResult,
          mrConflicts, upNewStudents, upFiles, upNewColumns, upColumnMappings, upToast,
          processingStats, cache, calls, scHeaders, scOverrides, scResult,
          simStr1, simStr2, simScore>>

mapperVars == <<existingStudents, auditTrail, validation, transfer, trailCopy, heldTrail,
                uuidCounter, now, pc, currentStep, mappingsProp, rawDataProp>>

mergeVars == <<mrExisting, mrIncoming, mrStrategy, mrResult, mrConflicts>>

uploadVars == <<upNewStudents, upFiles, upNewColumns, upColumnMappings, upToast>>

processVars == <<processingStats, cache, calls>>

schemaVars == <<scHeaders, scOverrides, scResult>>

similarityVars == <<simStr1, simStr2, simScore>>

\* what the DataMapper and its caller leave alone
processorVars == <<mergeVars, uploadVars, processVars, schemaVars, similarityVars>>

-----------------------------------------------------------------------------
(* JavaScript values *)

Undefined == [t |-> "undefined", v |-> 0]
Null == [t |-> "null", v |-> 0]
Str(s) == [t |-> "string", v |-> s]
Num(n) == [t |-> "number", v |-> n]
Bool(b) == [t |-> "boolean", v |-> b]
Arr(q) == [t |-> "array", v |-> q]

StrArr(q) == Arr([i \in 1..Len(q) |-> Str(q[i])])

IsArray(x) == x.t = "array"

\* !x
Falsy(x) ==
    \/ x.t \in {"undefined", "null"}
    \/ (x.t = "string" /\ x.v = "")
    \/ (x.t = "number" /\ x.v = 0)
    \/ x.t = "nan"
    \/ (x.t = "boolean" /\ x.v = FALSE)

\* value === undefined || value === null || value === ''
IsEmptyValue(x) ==
    \/ x.t \in {"undefined", "null"}
    \/ (x.t = "string" /\ x.v = "")

\* o[k] on an object: undefined when k is not an own key
Get(o, k) == IF k \in DOMAIN o THEN o[k] ELSE Undefined

\* o[k] = x
Put(o, k, x) == [f \in (DOMAIN o) \cup {k} |-> IF f = k THEN x ELSE o[f]]

\* { ...a, ...b }
Spread(a, b) ==
    [f \in (DOMAIN a) \cup (DOMAIN b) |-> IF f \in DOMAIN b THEN b[f] ELSE a[f]]

EmptyObject == [f \in {} |-> Undefined]

\* the order in which Object.keys and Object.entries walk the keys an object holds
KeyOrder == <<"id", "createdAt", "updatedAt", "PRN", "rollNo", "name", "department",
              "year", "cgpa", "skills", "email", "phone", "dateOfBirth", "gender",
              "bloodGroup", "certifications", "testScores", "achievements",
              "internships", "projects", "attendance", "backlogCount",
              "isEligibleForPlacements", "placementStatus">>

OwnKeys(o) == SelectSeq(KeyOrder, LAMBDA k : k \in DOMAIN o)

Contains(q, x) == \E i \in 1..Len(q) : q[i] = x

\* [...new Set(q)]: the first occurrence of every element, in order
RECURSIVE UniqueFrom(_, _)
UniqueFrom(seen, q) ==
    IF q = <<>> THEN seen
    ELSE IF Contains(seen, Head(q)) THEN UniqueFrom(seen, Tail(q))
         ELSE UniqueFrom(Append(seen, Head(q)), Tail(q))

SetSpread(q) == UniqueFrom(<<>>, q)

-----------------------------------------------------------------------------
(* JavaScript strings *)

UpperChars == {"A", "B", "C", "D", "E", "F", "G", "H", "I", "J", "K", "L", "M",
               "N", "O", "P", "Q", "R", "S", "T", "U", "V", "W", "X", "Y", "Z"}

LowerChars == {"a", "b", "c", "d", "e", "f", "g", "h", "i", "j", "k", "l", "m",
               "n", "o", "p", "q", "r", "s", "t", "u", "v", "w", "x", "y", "z"}

DigitChars == {"0", "1", "2", "3", "4", "5", "6", "7", "8", "9"}

SpaceChars == {" "}

CharAt(s, i) == SubSeq(s, i, i)

\* number of leading characters of s that lie in cs
RECURSIVE PrefixLen(_, _)
PrefixLen(s, cs) ==
    IF Len(s) = 0 \/ Head(s) \notin cs THEN 0
    ELSE 1 + PrefixLen(Tail(s), cs)

AllIn(s, cs) == PrefixLen(s, cs) = Len(s)

RECURSIVE SuffixLen(_, _)
SuffixLen(s, cs) ==
    IF Len(s) = 0 \/ CharAt(s, Len(s)) \notin cs THEN 0
    ELSE 1 + SuffixLen(SubSeq(s, 1, Len(s) - 1), cs)

\* s.trim()
Trim(s) ==
    LET lead == PrefixLen(s, SpaceChars)
    IN IF lead = Len(s) THEN ""
       ELSE SubSeq(s, lead + 1, Len(s) - SuffixLen(s, SpaceChars))

\* s.split(/[,;|]/)
RECURSIVE SplitFrom(_, _, _)
SplitFrom(done, piece, rest) ==
    IF Len(rest) = 0 THEN Append(done, piece)
    ELSE IF Head(rest) \in {",", ";", "|"}
         THEN SplitFrom(Append(done, piece), "", Tail(rest))
         ELSE SplitFrom(done, piece \o Head(rest), Tail(rest))

Split(s) == SplitFrom(<<>>, "", s)

UpperSeq == "ABCDEFGHIJKLMNOPQRSTUVWXYZ"
LowerSeq == "abcdefghijklmnopqrstuvwxyz"

LowerChar(c) ==
    IF c \in UpperChars
    THEN CharAt(LowerSeq, CHOOSE i \in 1..Len(UpperSeq) : CharAt(UpperSeq, i) = c)
    ELSE c

\* s.toLowerCase()
RECURSIVE ToLowerCase(_)
ToLowerCase(s) ==
    IF Len(s) = 0 THEN "" ELSE LowerChar(Head(s)) \o ToLowerCase(Tail(s))

DigitValue(c) ==
    CASE c = "0" -> 0 [] c = "1" -> 1 [] c = "2" -> 2 [] c = "3" -> 3 [] c = "4" -> 4
      [] c = "5" -> 5 [] c = "6" -> 6 [] c = "7" -> 7 [] c = "8" -> 8 [] c = "9" -> 9

RECURSIVE DigitsValue(_, _)
DigitsValue(acc, s) ==
    IF Len(s) = 0 THEN acc ELSE DigitsValue(acc * 10 + DigitValue(Head(s)), Tail(s))

\* isNaN(x) holds of this value alone
NaN == [t |-> "nan", v |-> 0]

\* parseFloat(s), in tenths: blanks, a sign, digits, a point and digits; what follows is ignored.
\* The digits after the first decimal are dropped (the cells used carry one decimal at most).
ParseFloat(s) ==
    LET a == SubSeq(s, PrefixLen(s, SpaceChars) + 1, Len(s))
        signed == Len(a) > 0 /\ Head(a) \in {"+", "-"}
        b == IF signed THEN Tail(a) ELSE a
        whole == PrefixLen(b, DigitChars)
        c == SubSeq(b, whole + 1, Len(b))
        pointed == Len(c) > 0 /\ Head(c) = "."
        frac == IF pointed THEN PrefixLen(Tail(c), DigitChars) ELSE 0
        tenths == IF frac > 0 THEN DigitValue(CharAt(c, 2)) ELSE 0
        magnitude == DigitsValue(0, SubSeq(b, 1, whole)) * 10 + tenths
    IN IF whole + frac = 0 THEN NaN
       ELSE Num(IF signed /\ Head(a) = "-" THEN 0 - magnitude ELSE magnitude)

\* String(n) of a number held in tenths
NumberToString(n) ==
    LET m == IF n < 0 THEN 0 - n ELSE n
    IN (IF n < 0 THEN "-" ELSE "") \o ToString(m \div 10)
       \o (IF m % 10 = 0 THEN "" ELSE "." \o ToString(m % 10))

\* String(value)
ToStr(x) ==
    CASE x.t = "string" -> x.v
      [] x.t = "number" -> NumberToString(x.v)
      [] x.t = "nan" -> "NaN"
      [] x.t = "boolean" -> IF x.v THEN "true" ELSE "false"
      [] x.t = "null" -> "null"
      [] x.t = "undefined" -> "undefined"

-----------------------------------------------------------------------------
(* DataMapper.validationRules *)

NoRule == [required |-> FALSE, type |-> "none", pattern |-> "none", enum |-> <<>>,
           hasMin |-> FALSE, min |-> 0, hasMax |-> FALSE, max |-> 0, minLength |-> 0, maxLength |-> 0,
           unique |-> FALSE, message |-> ""]

initializeValidationRules ==
    [rollNo |-> [NoRule EXCEPT !.required = TRUE, !.pattern = "rollNo", !.unique = TRUE,
                     !.message = "Roll number must be in format: XX000 or XXXX0000"],
     name |-> [NoRule EXCEPT !.required = TRUE, !.minLength = 2, !.maxLength = 100,
                     !.pattern = "name",
                     !.message = "Name must contain only letters, spaces, dots, apostrophes, and hyphens"],
     email |-> [NoRule EXCEPT !.pattern = "email", !.message = "Invalid email format"],
     phone |-> [NoRule EXCEPT !.pattern = "phone",
                     !.message = "Phone number must be exactly 10 digits"],
     department |-> [NoRule EXCEPT !.required = TRUE,
                     !.enum = <<"CS", "IT", "CSBS", "ENTC", "Electrical", "A&R", "Mechanical">>,
                     !.message = "Invalid department"],
     year |-> [NoRule EXCEPT !.required = TRUE,
                     !.enum = <<"FY", "SY", "TY", "Fourth Year">>,
                     !.message = "Invalid year"],
     cgpa |-> [NoRule EXCEPT !.required = TRUE, !.type = "number",
                     !.hasMin = TRUE, !.min = 0, !.hasMax = TRUE, !.max = 100,
                     !.message = "CGPA must be between 0 and 10"],
     dateOfBirth |-> [NoRule EXCEPT !.type = "date", !.message = "Invalid date format"],
     gender |-> [NoRule EXCEPT !.enum = <<"male", "female", "other">>,
                     !.message = "Invalid gender"],
     bloodGroup |-> [NoRule EXCEPT
                     !.enum = <<"A+", "A-", "B+", "B-", "AB+", "AB-", "O+", "O-">>,
                     !.message = "Invalid blood group"]]

validationRules == initializeValidationRules

HasRule(fieldName) == fieldName \in DOMAIN validationRules

\* /^[A-Z]{2,4}\d{3,4}$/
RollNoPattern(s) ==
    LET letters == PrefixLen(s, UpperChars)
        rest == SubSeq(s, letters + 1, Len(s))
    IN /\ letters \in 2..4
       /\ Len(rest) \in 3..4
       /\ AllIn(rest, DigitChars)

\* /^[a-zA-Z\s.'-]+$/
NamePattern(s) ==
    /\ Len(s) > 0
    /\ AllIn(s, LowerChars \cup UpperChars \cup SpaceChars \cup {".", "'", "-"})

\* /^\d{10}$/
PhonePattern(s) == Len(s) = 10 /\ AllIn(s, DigitChars)

NoSpaceNoAt(s) == Len(s) > 0 /\ \A i \in 1..Len(s) : CharAt(s, i) \notin SpaceChars \cup {"@"}

\* /^[^\s@]+@[^\s@]+\.[^\s@]+$/
EmailPattern(s) ==
    \E i \in 1..Len(s), j \in 1..Len(s) :
        /\ i < j
        /\ CharAt(s, i) = "@"
        /\ CharAt(s, j) = "."
        /\ NoSpaceNoAt(SubSeq(s, 1, i - 1))
        /\ NoSpaceNoAt(SubSeq(s, i + 1, j - 1))
        /\ NoSpaceNoAt(SubSeq(s, j + 1, Len(s)))

\* rule.pattern.test(s)
PatternTest(pattern, s) ==
    CASE pattern = "rollNo" -> RollNoPattern(s)
      [] pattern = "name" -> NamePattern(s)
      [] pattern = "phone" -> PhonePattern(s)
      [] pattern = "email" -> EmailPattern(s)

-----------------------------------------------------------------------------
(* DataMapper.convertDataType and validateField *)

\* uuidv4(): the n-th value handed out
Uuid(n) == Str("uuid-" \o ToString(n))

\* new Date().toISOString() at clock reading c
IsoTime(c) == Str("T" \o ToString(c))

\* new Date(s) for s of the shape YYYY-MM-DD (month 01..12, day 01..28), then
\* toISOString().split('T')[0]; any other text of the cells used is an Invalid Date
ParseDate(s) ==
    LET shaped == /\ Len(s) = 10
                  /\ AllIn(SubSeq(s, 1, 4), DigitChars)
                  /\ CharAt(s, 5) = "-"
                  /\ AllIn(SubSeq(s, 6, 7), DigitChars)
                  /\ CharAt(s, 8) = "-"
                  /\ AllIn(SubSeq(s, 9, 10), DigitChars)
    IN IF /\ shaped
          /\ DigitsValue(0, SubSeq(s, 6, 7)) \in 1..12
          /\ DigitsValue(0, SubSeq(s, 9, 10)) \in 1..28
       THEN Str(s) ELSE NaN

Returned(x) == [threw |-> FALSE, value |-> x, message |-> ""]
Thrown(m) == [threw |-> TRUE, value |-> Undefined, message |-> m]

convertDataType(value, fieldName) ==
    IF IsEmptyValue(value) THEN Returned(Undefined)
    ELSE IF ~HasRule(fieldName) THEN Returned(value)
    ELSE LET rule == validationRules[fieldName]
         IN CASE rule.type = "number" ->
                   LET numValue == IF value.t = "number" THEN value
                                   ELSE ParseFloat(ToStr(value))
                   IN IF numValue = NaN
                      THEN Thrown("Cannot convert \"" \o ToStr(value) \o "\" to number")
                      ELSE Returned(numValue)
              [] rule.type = "date" ->
                   LET dateValue == ParseDate(ToStr(value))
                   IN IF dateValue = NaN
                      THEN Thrown("Cannot convert \"" \o ToStr(value) \o "\" to date")
                      ELSE Returned(dateValue)
              [] rule.type = "boolean" ->
                   LET strValue == ToLowerCase(ToStr(value))
                   IN IF value.t = "boolean" THEN Returned(value)
                      ELSE IF strValue \in {"true", "1", "yes", "y"} THEN Returned(Bool(TRUE))
                      ELSE IF strValue \in {"false", "0", "no", "n"} THEN Returned(Bool(FALSE))
                      ELSE Thrown("Cannot convert \"" \o ToStr(value) \o "\" to boolean")
              [] OTHER -> Returned(Str(Trim(ToStr(value))))

\* q.join(', ')
RECURSIVE Joined(_)
Joined(q) ==
    IF Len(q) = 0 THEN ""
    ELSE IF Len(q) = 1 THEN q[1]
    ELSE q[1] \o ", " \o Joined(Tail(q))

\* FieldFailures without the check against the values seen in the batch
FieldFailuresNoUnique(fieldName, rule, value, uniqueTracker) ==
    (IF rule.pattern # "none" /\ ~PatternTest(rule.pattern, ToStr(value))
     THEN <<IF rule.message # "" THEN rule.message ELSE "Invalid format for " \o fieldName>>
     ELSE <<>>)
    \o
    (IF Len(rule.enum) > 0 /\ ~(value.t = "string" /\ Contains(rule.enum, value.v))
     THEN <<fieldName \o " must be one of: " \o Joined(rule.enum)>>
     ELSE <<>>)
    \o
    (IF rule.type = "number" /\ value.t = "number" /\ rule.hasMin /\ value.v < rule.min
     THEN <<fieldName \o " must be at least " \o NumberToString(rule.min)>>
     ELSE <<>>)
    \o
    (IF rule.type = "number" /\ value.t = "number" /\ rule.hasMax /\ value.v > rule.max
     THEN <<fieldName \o " must be at most " \o NumberToString(rule.max)>>
     ELSE <<>>)
    \o
    (IF value.t = "string" /\ rule.minLength # 0 /\ Len(value.v) < rule.minLength
     THEN <<fieldName \o " must be at least " \o ToString(rule.minLength) \o " characters">>
     ELSE <<>>)
    \o
    (IF value.t = "string" /\ rule.maxLength # 0 /\ Len(value.v) > rule.maxLength
     THEN <<fieldName \o " must be at most " \o ToString(rule.maxLength) \o " characters">>
     ELSE <<>>)

\* the messages of the checks that fail for a non-empty value, in the order of the checks
FieldFailures(fieldName, rule, value, uniqueTracker) ==
    (IF rule.pattern # "none" /\ ~PatternTest(rule.pattern, ToStr(value))
     THEN <<IF rule.message # "" THEN rule.message ELSE "Invalid format for " \o fieldName>>
     ELSE <<>>)
    \o
    (IF Len(rule.enum) > 0 /\ ~(value.t = "string" /\ Contains(rule.enum, value.v))
     THEN <<fieldName \o " must be one of: " \o Joined(rule.enum)>>
     ELSE <<>>)
    \o
    (IF rule.type = "number" /\ value.t = "number" /\ rule.hasMin /\ value.v < rule.min
     THEN <<fieldName \o " must be at least " \o NumberToString(rule.min)>>
     ELSE <<>>)
    \o
    (IF rule.type = "number" /\ value.t = "number" /\ rule.hasMax /\ value.v > rule.max
     THEN <<fieldName \o " must be at most " \o NumberToString(rule.max)>>
     ELSE <<>>)
    \o
    (IF value.t = "string" /\ rule.minLength # 0 /\ Len(value.v) < rule.minLength
     THEN <<fieldName \o " must be at least " \o ToString(rule.minLength) \o " characters">>
     ELSE <<>>)
    \o
    (IF value.t = "string" /\ rule.maxLength # 0 /\ Len(value.v) > rule.maxLength
     THEN <<fieldName \o " must be at most " \o ToString(rule.maxLength) \o " characters">>
     ELSE <<>>)
    \o
    (IF rule.unique /\ fieldName \in DOMAIN uniqueTracker /\ value \in uniqueTracker[fieldName]
     THEN <<"Duplicate " \o fieldName \o " found in uploaded data">>
     ELSE <<>>)

\* errors.push({ id: uuidv4(), row: rowIndex + 1, field, value, message, severity })
ErrorsFrom(messages, fieldName, value, rowIndex, uuid, severity) ==
    [i \in 1..Len(messages) |->
        [id |-> Uuid(uuid + i), row |-> rowIndex + 1, field |-> fieldName,
         value |-> value, message |-> messages[i], severity |-> severity]]

\* rowIndex counts from 0; uuid is the number of uuids handed out before the call
validateField(fieldName, value, rowIndex, uniqueTracker, existingRollNos, uuid) ==
    IF ~HasRule(fieldName)
    THEN [isValid |-> TRUE, errors |-> <<>>, warnings |-> <<>>, uuid |-> uuid]
    ELSE LET rule == validationRules[fieldName]
         IN IF rule.required /\ IsEmptyValue(value)
            THEN [isValid |-> FALSE,
                  errors |-> ErrorsFrom(<<fieldName \o " is required">>, fieldName, value,
                                        rowIndex, uuid, "error"),
                  warnings |-> <<>>, uuid |-> uuid + 1]
            ELSE IF IsEmptyValue(value)
            THEN [isValid |-> TRUE, errors |-> <<>>, warnings |-> <<>>, uuid |-> uuid]
            ELSE LET errors == ErrorsFrom(FieldFailures(fieldName, rule, value, uniqueTracker),
                                          fieldName, value, rowIndex, uuid, "error")
                     known == /\ rule.unique
                              /\ fieldName = "rollNo"
                              /\ Str(ToStr(value)) \in existingRollNos
                     warnings ==
                        IF known
                        THEN <<[id |-> Uuid(uuid + Len(errors) + 1), row |-> rowIndex + 1,
                                field |-> fieldName, value |-> value,
                                message |-> fieldName
                                    \o " already exists in database - will be updated"]>>
                        ELSE <<>>
                 IN [isValid |-> Len(errors) = 0, errors |-> errors, warnings |-> warnings,
                     uuid |-> uuid + Len(errors) + Len(warnings)]

-----------------------------------------------------------------------------
(* DataMapper.validateAndMapData *)

\* the header row of the sheet: Object.entries(row) walks a row's cells in this order
ExcelColumns == <<"PRN", "Student Name", "Dept", "Year", "CGPA", "Skills", "Attendance",
                  "Placement", "Certifications", "Eligible", "Gender">>

RowEntries(row) == SelectSeq(ExcelColumns, LAMBDA c : c \in DOMAIN row)

\* MappingLookup that enters every mapping that names a field, whatever its action
RECURSIVE MappingLookupAnyAction(_, _)
MappingLookupAnyAction(lookup, columnMappings) ==
    IF columnMappings = <<>> THEN lookup
    ELSE LET mapping == Head(columnMappings)
         IN MappingLookupAnyAction(IF mapping.suggestedMapping # ""
                                   THEN Put(lookup, mapping.excelColumn,
                                            mapping.suggestedMapping)
                                   ELSE lookup,
                                   Tail(columnMappings))

\* the mappingLookup Map built from the column mappings
RECURSIVE MappingLookup(_, _)
MappingLookup(lookup, columnMappings) ==
    IF columnMappings = <<>> THEN lookup
    ELSE LET mapping == Head(columnMappings)
         IN MappingLookup(IF mapping.action = "map" /\ mapping.suggestedMapping # ""
                          THEN Put(lookup, mapping.excelColumn, mapping.suggestedMapping)
                          ELSE lookup,
                          Tail(columnMappings))

\* if (!o[k]) o[k] = x
DefaultIfFalsy(o, k, x) == IF Falsy(Get(o, k)) THEN Put(o, k, x) ELSE o

\* if (o[k] === undefined) o[k] = x
DefaultIfUndefined(o, k, x) == IF Get(o, k) = Undefined THEN Put(o, k, x) ELSE o

\* the eleven defaults, the first applied innermost
setDefaultValues(mappedData) ==
    DefaultIfFalsy(
     DefaultIfFalsy(
      DefaultIfUndefined(
       DefaultIfUndefined(
        DefaultIfUndefined(
         DefaultIfFalsy(
          DefaultIfFalsy(
           DefaultIfFalsy(
            DefaultIfFalsy(
             DefaultIfFalsy(
              DefaultIfFalsy(mappedData, "skills", Arr(<<>>)),
              "certifications", Arr(<<>>)),
             "testScores", Arr(<<>>)),
            "achievements", Arr(<<>>)),
           "internships", Arr(<<>>)),
          "projects", Arr(<<>>)),
         "attendance", Num(0)),
        "backlogCount", Num(0)),
       "isEligibleForPlacements", Bool(FALSE)),
      "placementStatus", Str("not_eligible")),
     "gender", Str("other"))

requiredFields == <<"rollNo", "name", "department", "year", "cgpa">>

\* validateRequiredFields with cgpa left out of the list of required fields
validateRequiredFieldsWithoutCgpa(mappedData, rowIndex, uuid) ==
    LET missing == SelectSeq(SubSeq(requiredFields, 1, 4),
                             LAMBDA field : Falsy(Get(mappedData, field)))
    IN [i \in 1..Len(missing) |->
           [id |-> Uuid(uuid + i), row |-> rowIndex + 1, field |-> missing[i],
            value |-> Get(mappedData, missing[i]),
            message |-> missing[i] \o " is required but not mapped or empty",
            severity |-> "critical"]]

validateRequiredFields(mappedData, rowIndex, uuid) ==
    LET missing == SelectSeq(requiredFields, LAMBDA field : Falsy(Get(mappedData, field)))
    IN [i \in 1..Len(missing) |->
           [id |-> Uuid(uuid + i), row |-> rowIndex + 1, field |-> missing[i],
            value |-> Get(mappedData, missing[i]),
            message |-> missing[i] \o " is required but not mapped or empty",
            severity |-> "critical"]]

\* skills.split(/[,;|]/).map(skill => skill.trim()).filter(skill => skill.length > 0)
SkillsOf(s) ==
    LET pieces == Split(s)
        trimmed == [i \in 1..Len(pieces) |-> Trim(pieces[i])]
    IN StrArr(SelectSeq(trimmed, LAMBDA skill : Len(skill) > 0))

\* lines 175-188: what the verdict of validateField does to the state of the row
FieldValidated(st, systemField, convertedValue, validationResult) ==
    IF validationResult.isValid
    THEN [st EXCEPT
            !.mappedData = Put(@, systemField, convertedValue),
            !.uniqueTracker =
                IF HasRule(systemField) /\ validationRules[systemField].unique
                THEN Put(@, systemField,
                         (IF systemField \in DOMAIN st.uniqueTracker
                          THEN st.uniqueTracker[systemField] ELSE {})
                         \cup {convertedValue})
                ELSE @,
            !.uuid = validationResult.uuid]
    ELSE [st EXCEPT
            !.recordErrors = @ \o validationResult.errors,
            !.recordWarnings = @ \o validationResult.warnings,
            !.uuid = validationResult.uuid]

\* lines 165-198: the try block around the conversion and the validation of a cell
FieldConverted(st, systemField, value, converted, rowIndex, existingRollNos) ==
    IF converted.threw
    THEN [st EXCEPT
            !.recordErrors = Append(@,
                [id |-> Uuid(st.uuid + 1), row |-> rowIndex + 1,
                 field |-> systemField, value |-> value,
                 message |-> "Data conversion error: " \o converted.message,
                 severity |-> "error"]),
            !.uuid = @ + 1]
    ELSE FieldValidated(st, systemField, converted.value,
                        validateField(systemField, converted.value, rowIndex,
                                      st.uniqueTracker, existingRollNos, st.uuid))

\* one turn of the loop over the cells of a row (lines 161-199); st carries
\* mappedData, recordErrors, recordWarnings, uniqueTracker and the uuid count
FieldStep(st, excelColumn, value, mappingLookup, rowIndex, existingRollNos) ==
    IF excelColumn \notin DOMAIN mappingLookup THEN st
    ELSE FieldConverted(st, mappingLookup[excelColumn], value,
                        convertDataType(value, mappingLookup[excelColumn]),
                        rowIndex, existingRollNos)

RECURSIVE FieldLoop(_, _, _, _, _, _)
FieldLoop(st, row, columns, mappingLookup, rowIndex, existingRollNos) ==
    IF columns = <<>> THEN st
    ELSE FieldLoop(FieldStep(st, Head(columns), row[Head(columns)], mappingLookup,
                             rowIndex, existingRollNos),
                   row, Tail(columns), mappingLookup, rowIndex, existingRollNos)

\* lines 208-214: a skills value that is still a string becomes a list
ProcessSkills(mappedData) ==
    IF mappedData["skills"].t = "string"
    THEN Put(mappedData, "skills", SkillsOf(mappedData["skills"].v))
    ELSE mappedData

\* lines 216-229: the status of the record, the record and the totals of the batch
RowRecord(acc, row, recordId, mappedData, recordErrors, recordWarnings, uniqueTracker, uuid) ==
    [errors |-> acc.errors \o recordErrors,
     warnings |-> acc.warnings \o recordWarnings,
     processedRecords |-> Append(acc.processedRecords,
         [id |-> recordId, originalData |-> row, mappedData |-> mappedData,
          validationStatus |-> IF Len(recordErrors) > 0 THEN "error"
                               ELSE IF Len(recordWarnings) > 0 THEN "warning"
                               ELSE "valid",
          errors |-> recordErrors,
          warnings |-> recordWarnings]),
     uniqueTracker |-> uniqueTracker,
     uuid |-> uuid]

\* lines 204-206: the errors of validateRequiredFields join those of the cells
RowRequired(acc, row, recordId, cells, defaulted, requiredFieldErrors) ==
    RowRecord(acc, row, recordId, ProcessSkills(defaulted),
              cells.recordErrors \o requiredFieldErrors, cells.recordWarnings,
              cells.uniqueTracker, cells.uuid + Len(requiredFieldErrors))

\* lines 201-205: defaults, then the required fields of the defaulted data
RowDefaulted(acc, row, rowIndex, recordId, cells, defaulted) ==
    RowRequired(acc, row, recordId, cells, defaulted,
                validateRequiredFields(defaulted, rowIndex, cells.uuid))

RowCells(acc, row, rowIndex, recordId, cells) ==
    RowDefaulted(acc, row, rowIndex, recordId, cells, setDefaultValues(cells.mappedData))

\* one turn of the loop over the rows (lines 147-230); acc carries errors, warnings,
\* processedRecords, uniqueTracker and the uuid count
RowStep(acc, row, rowIndex, mappingLookup, existingRollNos, clock) ==
    RowCells(acc, row, rowIndex, Uuid(acc.uuid + 1),
             FieldLoop([mappedData |-> [id |-> Uuid(acc.uuid + 1),
                                        createdAt |-> IsoTime(clock),
                                        updatedAt |-> IsoTime(clock)],
                        recordErrors |-> <<>>, recordWarnings |-> <<>>,
                        uniqueTracker |-> acc.uniqueTracker, uuid |-> acc.uuid + 1],
                       row, RowEntries(row), mappingLookup, rowIndex, existingRollNos))

RECURSIVE RowLoop(_, _, _, _, _, _)
RowLoop(acc, rawData, rowIndex, mappingLookup, existingRollNos, clock) ==
    IF rowIndex >= Len(rawData) THEN acc
    ELSE RowLoop(RowStep(acc, rawData[rowIndex + 1], rowIndex, mappingLookup,
                         existingRollNos, clock),
                 rawData, rowIndex + 1, mappingLookup, existingRollNos, clock)

\* lines 232-237: the result returned, with the uuid count the call leaves behind
ValidationResultOf(done) ==
    [isValid |-> Len(done.errors) = 0, errors |-> done.errors,
     warnings |-> done.warnings, processedRecords |-> done.processedRecords,
     uuid |-> done.uuid]

validateAndMapData(rawData, columnMappings, students, uuid, clock) ==
    ValidationResultOf(
        RowLoop([errors |-> <<>>, warnings |-> <<>>, processedRecords |-> <<>>,
                 uniqueTracker |-> EmptyObject, uuid |-> uuid],
                rawData, 0, MappingLookup(EmptyObject, columnMappings),
                {Get(students[i], "rollNo") : i \in 1..Len(students)}, clock))

-----------------------------------------------------------------------------
(* DataMapper.transferDataToStudentTable and the audit trail *)

\* JSON.stringify(x); undefined has no text and stays undefined
RECURSIVE JsonStringify(_)
RECURSIVE JsonItems(_)

\* the items of an array, separated by commas; an undefined item is written null
JsonItems(q) ==
    IF Len(q) = 0 THEN ""
    ELSE (IF Head(q).t = "undefined" THEN "null" ELSE JsonStringify(Head(q)).v)
         \o (IF Len(q) = 1 THEN "" ELSE "," \o JsonItems(Tail(q)))

JsonStringify(x) ==
    CASE x.t = "undefined" -> Undefined
      [] x.t \in {"null", "nan"} -> Str("null")
      [] x.t = "string" -> Str("\"" \o x.v \o "\"")
      [] x.t = "number" -> Str(NumberToString(x.v))
      [] x.t = "boolean" -> Str(IF x.v THEN "true" ELSE "false")
      [] x.t = "array" -> Str("[" \o JsonItems(x.v) \o "]")

\* one turn of the forEach over Object.keys(incoming) (lines 530-542)
MergeStep1(merged, key, value) ==
    IF ~IsEmptyValue(value)
    THEN IF IsArray(value) /\ IsArray(Get(merged, key))
         THEN Put(merged, key, Arr(SetSpread(merged[key].v \o value.v)))
         ELSE Put(merged, key, value)
    ELSE merged

RECURSIVE MergeLoop(_, _, _)
MergeLoop(merged, incoming, keys) ==
    IF keys = <<>> THEN merged
    ELSE MergeLoop(MergeStep1(merged, Head(keys), incoming[Head(keys)]),
                   incoming, Tail(keys))

\* mergeStudentData writing into `existing` itself (const merged = existing)
mergeStudentDataInPlace(existing, incoming, clock) ==
    LET merged == Put(MergeLoop(existing, incoming, OwnKeys(incoming)),
                      "updatedAt", IsoTime(clock))
    IN [merged |-> merged, existing |-> merged]

\* the record returned, and the object `existing` as the call leaves it: the writes
\* go to the copy { ...existing } made at line 527
mergeStudentData(existing, incoming, clock) ==
    [merged |-> Put(MergeLoop(existing, incoming, OwnKeys(incoming)),
                    "updatedAt", IsoTime(clock)),
     existing |-> existing]

\* ChangesLoop comparing with !==, under which the arrays the merge builds always differ
RECURSIVE ChangesLoopByReference(_, _, _, _)
ChangesLoopByReference(changes, oldData, newData, keys) ==
    IF keys = <<>> THEN changes
    ELSE LET key == Head(keys)
             oldValue == Get(oldData, key)
             newValue == Get(newData, key)
         IN ChangesLoopByReference(
                IF IsArray(newValue) \/ oldValue # newValue
                THEN Put(changes, key, [old |-> oldValue, new |-> newValue])
                ELSE changes,
                oldData, newData, Tail(keys))

RECURSIVE ChangesLoop(_, _, _, _)
ChangesLoop(changes, oldData, newData, keys) ==
    IF keys = <<>> THEN changes
    ELSE LET key == Head(keys)
             oldValue == Get(oldData, key)
             newValue == Get(newData, key)
         IN ChangesLoop(IF JsonStringify(oldValue) # JsonStringify(newValue)
                        THEN Put(changes, key, [old |-> oldValue, new |-> newValue])
                        ELSE changes,
                        oldData, newData, Tail(keys))

calculateChanges(oldData, newData) ==
    ChangesLoop(EmptyObject, oldData, newData, OwnKeys(newData))

\* addAuditEntry assigning a one-entry array in place of the push
addAuditEntryReplace(trail, action, recordId, changes, uuid, clock) ==
    <<[id |-> Uuid(uuid + 1), action |-> action, recordId |-> recordId,
       changes |-> changes, timestamp |-> IsoTime(clock), userId |-> "current-user"]>>

\* this.auditTrail.push({...}) on the trail given; uuid counts the uuids handed out before
addAuditEntry(trail, action, recordId, changes, uuid, clock) ==
    Append(trail, [id |-> Uuid(uuid + 1), action |-> action, recordId |-> recordId,
                   changes |-> changes, timestamp |-> IsoTime(clock),
                   userId |-> "current-user"])

\* a Map as the sequence of its entries [key, value] in insertion order
MapHas(map, key) == \E i \in 1..Len(map) : map[i].key = key

\* map.get(key) for a key the Map holds
MapValue(map, key) == map[CHOOSE i \in 1..Len(map) : map[i].key = key].value

\* map.set(key, value): a key already held keeps its place
MapSet(map, key, value) ==
    IF MapHas(map, key)
    THEN [i \in 1..Len(map) |-> IF map[i].key = key THEN [key |-> key, value |-> value]
                                ELSE map[i]]
    ELSE Append(map, [key |-> key, value |-> value])

\* existingStudentsMap.get(rollNo): the place in students of the record the Map holds
\* for the key (the last one set), 0 when the Map has no such key
MapGet(students, rollNo) ==
    LET at == {i \in 1..Len(students) : Get(students[i], "rollNo") = rollNo}
    IN IF at = {} THEN 0 ELSE CHOOSE i \in at : \A j \in at : j <= i

\* TransferStep without the branch for error records
TransferStepNoSkip(st, record, clock) ==
    LET studentData == record.mappedData
        at == MapGet(st.existingStudents, Get(studentData, "rollNo"))
    IN IF at # 0
       THEN LET existingStudent == st.existingStudents[at]
                call == mergeStudentData(existingStudent, studentData, clock)
                updatedStudent == call.merged
            IN [st EXCEPT
                   !.existingStudents[at] = call.existing,
                   !.updatedStudents = Append(@, updatedStudent),
                   !.duplicateCount = @ + 1,
                   !.auditTrail = addAuditEntry(@, "update", record.id,
                                      calculateChanges(call.existing, updatedStudent),
                                      st.uuid, clock),
                   !.uuid = @ + 1,
                   !.warnings = @ \o record.warnings]
       ELSE [st EXCEPT
               !.newStudents = Append(@, studentData),
               !.transferredCount = @ + 1,
               !.auditTrail = addAuditEntry(@, "insert", record.id, EmptyObject,
                                            st.uuid, clock),
               !.uuid = @ + 1,
               !.warnings = @ \o record.warnings]

\* TransferStep counting an update as a transferred record
TransferStepMiscount(st, record, clock) ==
    IF record.validationStatus = "error"
    THEN [st EXCEPT
            !.skippedCount = @ + 1,
            !.errors = @ \o record.errors,
            !.auditTrail = addAuditEntry(@, "skip", record.id, EmptyObject, st.uuid, clock),
            !.uuid = @ + 1]
    ELSE LET studentData == record.mappedData
             at == MapGet(st.existingStudents, Get(studentData, "rollNo"))
         IN IF at # 0
            THEN LET existingStudent == st.existingStudents[at]
                     call == mergeStudentData(existingStudent, studentData, clock)
                     updatedStudent == call.merged
                 IN [st EXCEPT
                        !.existingStudents[at] = call.existing,
                        !.updatedStudents = Append(@, updatedStudent),
                        !.transferredCount = @ + 1,
                        !.auditTrail = addAuditEntry(@, "update", record.id,
                                           calculateChanges(call.existing, updatedStudent),
                                           st.uuid, clock),
                        !.uuid = @ + 1,
                        !.warnings = @ \o record.warnings]
            ELSE [st EXCEPT
                    !.newStudents = Append(@, studentData),
                    !.transferredCount = @ + 1,
                    !.auditTrail = addAuditEntry(@, "insert", record.id, EmptyObject,
                                                 st.uuid, clock),
                    !.uuid = @ + 1,
                    !.warnings = @ \o record.warnings]

\* TransferStep that skips an error record without keeping its errors
TransferStepDropErrors(st, record, clock) ==
    IF record.validationStatus = "error"
    THEN [st EXCEPT
            !.skippedCount = @ + 1,
            !.auditTrail = addAuditEntry(@, "skip", record.id, EmptyObject, st.uuid, clock),
            !.uuid = @ + 1]
    ELSE LET studentData == record.mappedData
             at == MapGet(st.existingStudents, Get(studentData, "rollNo"))
         IN IF at # 0
            THEN LET existingStudent == st.existingStudents[at]
                     call == mergeStudentData(existingStudent, studentData, clock)
                     updatedStudent == call.merged
                 IN [st EXCEPT
                        !.existingStudents[at] = call.existing,
                        !.updatedStudents = Append(@, updatedStudent),
                        !.duplicateCount = @ + 1,
                        !.auditTrail = addAuditEntry(@, "update", record.id,
                                           calculateChanges(call.existing, updatedStudent),
                                           st.uuid, clock),
                        !.uuid = @ + 1,
                        !.warnings = @ \o record.warnings]
            ELSE [st EXCEPT
                    !.newStudents = Append(@, studentData),
                    !.transferredCount = @ + 1,
                    !.auditTrail = addAuditEntry(@, "insert", record.id, EmptyObject,
                                                 st.uuid, clock),
                    !.uuid = @ + 1,
                    !.warnings = @ \o record.warnings]

\* one turn of the loop over the processed records (lines 475-505)
TransferStep(st, record, clock) ==
    IF record.validationStatus = "error"
    THEN [st EXCEPT
            !.skippedCount = @ + 1,
            !.errors = @ \o record.errors,
            !.auditTrail = addAuditEntry(@, "skip", record.id, EmptyObject, st.uuid, clock),
            !.uuid = @ + 1]
    ELSE LET studentData == record.mappedData
             at == MapGet(st.existingStudents, Get(studentData, "rollNo"))
         IN IF at # 0
            THEN LET existingStudent == st.existingStudents[at]
                     call == mergeStudentData(existingStudent, studentData, clock)
                     updatedStudent == call.merged
                 IN [st EXCEPT
                        !.existingStudents[at] = call.existing,
                        !.updatedStudents = Append(@, updatedStudent),
                        !.duplicateCount = @ + 1,
                        !.auditTrail = addAuditEntry(@, "update", record.id,
                                           calculateChanges(call.existing, updatedStudent),
                                           st.uuid, clock),
                        !.uuid = @ + 1,
                        !.warnings = @ \o record.warnings]
            ELSE [st EXCEPT
                    !.newStudents = Append(@, studentData),
                    !.transferredCount = @ + 1,
                    !.auditTrail = addAuditEntry(@, "insert", record.id, EmptyObject,
                                                 st.uuid, clock),
                    !.uuid = @ + 1,
                    !.warnings = @ \o record.warnings]

RECURSIVE TransferLoop(_, _, _)
TransferLoop(st, records, clock) ==
    IF records = <<>> THEN st
    ELSE TransferLoop(TransferStep(st, Head(records), clock), Tail(records), clock)

\* allStudents without the filter on the existing records
allStudentsNoFilter(students, updatedStudents, newStudents) ==
    students \o updatedStudents \o newStudents

\* [...existingStudents.filter(s => !updatedStudents.some(u => u.rollNo === s.rollNo)),
\*  ...updatedStudents, ...newStudents]
allStudents(students, updatedStudents, newStudents) ==
    SelectSeq(students,
              LAMBDA s : ~\E i \in 1..Len(updatedStudents) :
                             Get(updatedStudents[i], "rollNo") = Get(s, "rollNo"))
    \o updatedStudents \o newStudents

\* the DataTransferResult together with what the call leaves behind: the locals
\* allStudents, newStudents and updatedStudents, this.auditTrail, the caller's
\* records and the uuid count
transferDataToStudentTable(validationResult, students, trail, uuid, clock) ==
    LET done == TransferLoop([transferredCount |-> 0, skippedCount |-> 0,
                              duplicateCount |-> 0, errors |-> <<>>, warnings |-> <<>>,
                              newStudents |-> <<>>, updatedStudents |-> <<>>,
                              auditTrail |-> trail, uuid |-> uuid,
                              existingStudents |-> students],
                             validationResult.processedRecords, clock)
    IN [success |-> Len(done.errors) = 0,
        transferredCount |-> done.transferredCount,
        skippedCount |-> done.skippedCount,
        duplicateCount |-> done.duplicateCount,
        errors |-> done.errors,
        warnings |-> done.warnings,
        auditTrail |-> done.auditTrail,
        timestamp |-> IsoTime(clock),
        allStudents |-> allStudents(done.existingStudents, done.updatedStudents,
                                    done.newStudents),
        newStudents |-> done.newStudents,
        updatedStudents |-> done.updatedStudents,
        existingStudents |-> done.existingStudents,
        uuid |-> done.uuid]

getAuditTrail(trail) == [i \in 1..Len(trail) |-> trail[i]]

clearAuditTrail(trail) == <<>>

-----------------------------------------------------------------------------
(* DataProcessor.mergeRecords *)

\* SmartStep with the union taken incoming elements first
SmartStepIncomingFirst(merged, key, value) ==
    IF Falsy(Get(merged, key)) \/ ~IsEmptyValue(value)
    THEN IF IsArray(Get(merged, key)) /\ IsArray(value)
         THEN Put(merged, key, Arr(SetSpread(value.v \o merged[key].v)))
         ELSE Put(merged, key, value)
    ELSE merged

\* SmartStep with the lists concatenated and not deduplicated
SmartStepConcat(merged, key, value) ==
    IF Falsy(Get(merged, key)) \/ ~IsEmptyValue(value)
    THEN IF IsArray(Get(merged, key)) /\ IsArray(value)
         THEN Put(merged, key, Arr(merged[key].v \o value.v))
         ELSE Put(merged, key, value)
    ELSE merged

\* one turn of the forEach of the 'smart' case
SmartStep(merged, key, value) ==
    IF Falsy(Get(merged, key)) \/ ~IsEmptyValue(value)
    THEN IF IsArray(Get(merged, key)) /\ IsArray(value)
         THEN Put(merged, key, Arr(SetSpread(merged[key].v \o value.v)))
         ELSE Put(merged, key, value)
    ELSE merged

RECURSIVE SmartLoop(_, _, _)
SmartLoop(merged, incoming, keys) ==
    IF keys = <<>> THEN merged
    ELSE SmartLoop(SmartStep(merged, Head(keys), incoming[Head(keys)]),
                   incoming, Tail(keys))

mergeRecords(existing, incoming, strategy) ==
    CASE strategy = "overwrite" -> Spread(existing, incoming)
      [] strategy = "preserve" -> Spread(incoming, existing)
      [] strategy = "smart" -> SmartLoop(existing, incoming, OwnKeys(incoming))
      [] OTHER -> existing

-----------------------------------------------------------------------------
(* DataProcessor.detectConflicts *)

\* a !== b for a value of the record kept and a value of the incoming record.  The
\* incoming record is built afresh by processRecord, its lists by normalizeValue, so
\* a list of one record is never the same object as a list of the other.
StrictNotEqual(a, b) ==
    IF IsArray(a) /\ IsArray(b) THEN TRUE ELSE a # b

\* ConflictStep without the three tests on incoming[key]
ConflictStepOneSided(conflicts, existing, incoming, key) ==
    IF /\ ~IsEmptyValue(Get(existing, key))
       /\ StrictNotEqual(Get(existing, key), Get(incoming, key))
    THEN Append(conflicts, [field |-> key, existingValue |-> Get(existing, key),
                            incomingValue |-> Get(incoming, key)])
    ELSE conflicts

\* one turn of the forEach over Object.keys(incoming)
ConflictStep(conflicts, existing, incoming, key) ==
    IF /\ ~IsEmptyValue(Get(existing, key))
       /\ ~IsEmptyValue(Get(incoming, key))
       /\ StrictNotEqual(Get(existing, key), Get(incoming, key))
    THEN Append(conflicts, [field |-> key, existingValue |-> Get(existing, key),
                            incomingValue |-> Get(incoming, key)])
    ELSE conflicts

RECURSIVE ConflictLoop(_, _, _, _)
ConflictLoop(conflicts, existing, incoming, keys) ==
    IF keys = <<>> THEN conflicts
    ELSE ConflictLoop(ConflictStep(conflicts, existing, incoming, Head(keys)),
                      existing, incoming, Tail(keys))

detectConflicts(existing, incoming) ==
    ConflictLoop(<<>>, existing, incoming, OwnKeys(incoming))

-----------------------------------------------------------------------------
(* DataProcessor.validateSchema, suggestColumnMapping, calculateSimilarity, editDistance *)

\* this.knownColumns, in the order the Set holds them
knownColumns == <<"PRN", "name", "email", "department", "year", "cgpa", "phone",
                  "skills", "certifications", "projects", "internships">>

\* substitution at cost 2
SubstitutionCostTwo(c1, c2) == IF c1 = c2 THEN 0 ELSE 2

\* str1[i - 1] === str2[j - 1] ? 0 : 1
SubstitutionCost(c1, c2) == IF c1 = c2 THEN 0 ELSE 1

\* Math.min(a, b, c)
Min3(a, b, c) ==
    IF a <= b /\ a <= c THEN a ELSE IF b <= c THEN b ELSE c

\* the inner loop: row holds matrix[j][0 .. Len(row) - 1], prev is matrix[j - 1], ch is
\* str2[j - 1]; the next cell is that of column Len(row)
RECURSIVE RowFrom(_, _, _, _)
RowFrom(row, prev, str1, ch) ==
    IF Len(row) > Len(str1) THEN row
    ELSE RowFrom(Append(row, Min3(row[Len(row)] + 1,
                                  prev[Len(row) + 1] + 1,
                                  prev[Len(row)]
                                     + SubstitutionCost(CharAt(str1, Len(row)), ch))),
                 prev, str1, ch)

\* the outer loop from row j on; prev is matrix[j - 1]; the last row is returned
RECURSIVE MatrixFrom(_, _, _, _)
MatrixFrom(prev, str1, str2, j) ==
    IF j > Len(str2) THEN prev
    ELSE MatrixFrom(RowFrom(<<j>>, prev, str1, CharAt(str2, j)), str1, str2, j + 1)

\* matrix[str2.length][str1.length]
editDistance(str1, str2) ==
    MatrixFrom([i \in 1..(Len(str1) + 1) |-> i - 1], str1, str2, 1)[Len(str1) + 1]

\* a quotient of two lengths, held as numerator and denominator
Ratio(n, d) == [num |-> n, den |-> d]

SimilarityOf(longer, shorter) ==
    IF Len(longer) = 0 THEN Ratio(1, 1)
    ELSE Ratio(Len(longer) - editDistance(longer, shorter), Len(longer))

calculateSimilarity(str1, str2) ==
    SimilarityOf(IF Len(str1) > Len(str2) THEN str1 ELSE str2,
                 IF Len(str1) > Len(str2) THEN str2 ELSE str1)

\* s.replace(/[^a-z0-9]/g, '')
RECURSIVE StripNonAlnum(_)
StripNonAlnum(s) ==
    IF Len(s) = 0 THEN ""
    ELSE (IF Head(s) \in LowerChars \cup DigitChars THEN Head(s) ELSE "")
         \o StripNonAlnum(Tail(s))

\* the acceptance threshold 0.6, in tenths
ThresholdTenths == 6

\* similarity > 0.3
AboveThresholdHalved(similarity) == similarity.num * 10 > 3 * similarity.den

\* similarity > 0.6
AboveThreshold(similarity) == similarity.num * 10 > ThresholdTenths * similarity.den

\* b.similarity - a.similarity > 0
MoreSimilar(b, a) == b.similarity.num * a.similarity.den > a.similarity.num * b.similarity.den

\* suggestions.sort((a, b) => b.similarity - a.similarity): descending, entries of
\* equal similarity keeping their order
RECURSIVE InsertBySimilarity(_, _)
InsertBySimilarity(sorted, x) ==
    IF sorted = <<>> THEN <<x>>
    ELSE IF MoreSimilar(x, Head(sorted)) THEN <<x>> \o sorted
         ELSE <<Head(sorted)>> \o InsertBySimilarity(Tail(sorted), x)

RECURSIVE SortBySimilarity(_, _)
SortBySimilarity(sorted, suggestions) ==
    IF suggestions = <<>> THEN sorted
    ELSE SortBySimilarity(InsertBySimilarity(sorted, Head(suggestions)), Tail(suggestions))

\* Array.from(this.knownColumns).map(known => ({ column, similarity }))
Suggestions(normalized) ==
    [k \in 1..Len(knownColumns) |->
        [column |-> knownColumns[k],
         similarity |-> calculateSimilarity(normalized, ToLowerCase(knownColumns[k]))]]

\* suggestions[0].similarity > 0.6 ? suggestions[0].column : ''
BestSuggestion(first) ==
    IF AboveThreshold(first.similarity) THEN first.column ELSE ""

suggestColumnMapping(column) ==
    BestSuggestion(Head(SortBySimilarity(<<>>,
                        Suggestions(StripNonAlnum(ToLowerCase(column))))))

\* one turn of headers.forEach; of the ColumnMapping pushed, the column, the
\* suggestion and the action are held
SchemaStep(unmappedColumns, header, overrides) ==
    IF ~Contains(knownColumns, header) /\ header \notin overrides
    THEN Append(unmappedColumns,
                [excelColumn |-> header,
                 suggestedMapping |-> suggestColumnMapping(header),
                 action |-> "pending"])
    ELSE unmappedColumns

RECURSIVE SchemaLoop(_, _, _)
SchemaLoop(unmappedColumns, headers, overrides) ==
    IF headers = <<>> THEN unmappedColumns
    ELSE SchemaLoop(SchemaStep(unmappedColumns, Head(headers), overrides),
                    Tail(headers), overrides)

SchemaResultOf(unmappedColumns) ==
    [isValid |-> Len(unmappedColumns) = 0, unmappedColumns |-> unmappedColumns]

validateSchema(headers, overrides) ==
    SchemaResultOf(SchemaLoop(<<>>, headers, overrides))

-----------------------------------------------------------------------------
(* The inputs mergeRecords is applied to *)

MaxListLen == 2

ListElements == {Str("Java"), Str("Python")}

RECURSIVE ListsUpTo(_)
ListsUpTo(n) ==
    IF n = 0 THEN {<<>>}
    ELSE LET shorter == ListsUpTo(n - 1)
         IN shorter \cup {Append(q, e) : q \in {r \in shorter : Len(r) = n - 1},
                                          e \in ListElements}

ScalarValues == {Undefined, Null, Str(""), Str("x"), Num(0), Num(85), Bool(FALSE)}

FieldValues == ScalarValues \cup {Arr(q) : q \in ListsUpTo(MaxListLen)}

\* objects over the keys of ks: every key is absent or holds one of vs
ObjectsOver(ks, vs) ==
    UNION {[own -> vs] : own \in SUBSET ks}

\* the records kept for one PRN: processRecord starts every record as { PRN: record.PRN }
StudentRecords ==
    {Spread([PRN |-> Str("CS001")], Spread(a, b)) :
        a \in ObjectsOver({"cgpa"}, {Null, Str(""), Num(0), Num(85), Num(80)}),
        b \in ObjectsOver({"skills"}, FieldValues)}

MergeStrategies == {"overwrite", "preserve", "smart"}

NoResult == [f \in {"none"} |-> Undefined]

MergeIdle ==
    /\ mrExisting = EmptyObject
    /\ mrIncoming = EmptyObject
    /\ mrStrategy = "smart"
    /\ mrResult = NoResult
    /\ mrConflicts = <<>>

\* processFiles, lines 183-203: for a PRN already held, the conflicts between the
\* record kept and the incoming record are detected, then the record kept becomes
\* mergeRecords(existing, incoming, strategy)
MergeStep ==
    /\ mrResult = NoResult
    /\ mrConflicts' = detectConflicts(mrExisting, mrIncoming)
    /\ mrResult' = mergeRecords(mrExisting, mrIncoming, mrStrategy)
    /\ UNCHANGED <<mrExisting, mrIncoming, mrStrategy>>
    /\ UNCHANGED <<mapperVars, uploadVars, processVars, schemaVars, similarityVars>>

MergeNext == MergeStep

-----------------------------------------------------------------------------
(* The caller of the DataMapper: its store, its sheets and its calls *)

MaxRows == 2
MaxClock == 4

StudentCS001 ==
    [id |-> Str("student-1"), rollNo |-> Str("CS001"), name |-> Str("Asha Rao"),
     department |-> Str("CS"), year |-> Str("TY"), cgpa |-> Num(80),
     skills |-> StrArr(<<"Java">>), certifications |-> Arr(<<>>),
     testScores |-> Arr(<<>>), email |-> Str("asha@example.com"),
     placementStatus |-> Str("eligible"), gender |-> Str("female"),
     createdAt |-> Str("2024-06-01T09:00:00.000Z"),
     updatedAt |-> Str("2024-06-01T09:00:00.000Z")]

StudentIT002 ==
    [id |-> Str("student-2"), rollNo |-> Str("IT002"), name |-> Str("Vikram Shah"),
     department |-> Str("IT"), year |-> Str("SY"), cgpa |-> Num(72),
     skills |-> StrArr(<<"Java", "SQL">>), certifications |-> Arr(<<>>),
     testScores |-> Arr(<<>>), createdAt |-> Str("2024-06-01T09:00:00.000Z"),
     updatedAt |-> Str("2024-06-01T09:00:00.000Z")]

StorePool == {<<StudentCS001>>, <<StudentIT002, StudentCS001>>}

Row(prn, name, dept, year, cgpa, skills) ==
    [c \in {"PRN", "Student Name", "Dept", "Year", "CGPA", "Skills"} |->
        CASE c = "PRN" -> prn [] c = "Student Name" -> name [] c = "Dept" -> dept
          [] c = "Year" -> year [] c = "CGPA" -> cgpa [] c = "Skills" -> skills]

RowPool ==
    {Row(Str("CS001"), Str("Asha Rao"), Str("CS"), Str("TY"), Str("8.5"), Str("Python")),
     Row(Str(" CS002 "), Str("Ravi K"), Str("IT"), Str("SY"), Num(90), Str("Java; Python")),
     Row(Str("CS003"), Str("Meera"), Str("CS"), Str("FY"), Str("11.5"), Str("")),
     Row(Str("IT002"), Str("Vikram Shah"), Str("IT"), Str("SY"), Str("7.2"), Str("Java"))}

RECURSIVE SeqsUpTo(_, _)
SeqsUpTo(S, n) ==
    IF n = 0 THEN {<<>>}
    ELSE LET shorter == SeqsUpTo(S, n - 1)
         IN shorter \cup {Append(q, e) : q \in {r \in shorter : Len(r) = n - 1}, e \in S}

Batches == SeqsUpTo(RowPool, MaxRows)

Mapped(excelColumn, systemField) ==
    [excelColumn |-> excelColumn, suggestedMapping |-> systemField, action |-> "map"]

FullMapping ==
    <<Mapped("PRN", "rollNo"), Mapped("Student Name", "name"), Mapped("Dept", "department"),
      Mapped("Year", "year"), Mapped("CGPA", "cgpa"), Mapped("Skills", "skills")>>

\* a ColumnMapping that is not resolved to a field: left pending or set to skip,
\* with the mapping that was suggested for it
Unresolved(excelColumn, suggestedMapping, action) ==
    [excelColumn |-> excelColumn, suggestedMapping |-> suggestedMapping, action |-> action]

\* Dept skipped and CGPA left pending, each with the field suggested for it, and
\* Skills set to map with no field chosen
UnresolvedMapping ==
    <<Mapped("PRN", "rollNo"), Mapped("Student Name", "name"),
      Unresolved("Dept", "department", "skip"), Mapped("Year", "year"),
      Unresolved("CGPA", "cgpa", "pending"), Mapped("Skills", "")>>

MappingPool == {FullMapping, UnresolvedMapping}

NoValidation ==
    [isValid |-> TRUE, errors |-> <<>>, warnings |-> <<>>, processedRecords |-> <<>>,
     uuid |-> 0]

NoTransfer == [timestamp |-> Undefined]

\* new Map(students.map(s => [s[keyField], s])): the entries in insertion order, a
\* later record of a key already held taking the place of the earlier one
RECURSIVE MapFrom(_, _, _)
MapFrom(map, students, keyField) ==
    IF students = <<>> THEN map
    ELSE MapFrom(MapSet(map, Get(Head(students), keyField), Head(students)),
                 Tail(students), keyField)

\* Array.from(map.values())
MapValues(map) == [i \in 1..Len(map) |-> map[i].value]

\* one turn of validRecords.forEach
UpdateStep(st, record, clock) ==
    IF MapHas(st.map, Get(record, "rollNo"))
    THEN [st EXCEPT !.map =
             MapSet(st.map, Get(record, "rollNo"),
                    Spread(Spread(MapValue(st.map, Get(record, "rollNo")), record),
                           [updatedAt |-> IsoTime(clock)]))]
    ELSE [st EXCEPT !.newStudents = Append(st.newStudents, record)]

RECURSIVE UpdateLoop(_, _, _)
UpdateLoop(st, validRecords, clock) ==
    IF validRecords = <<>> THEN st
    ELSE UpdateLoop(UpdateStep(st, Head(validRecords), clock), Tail(validRecords), clock)

\* [...Array.from(existingStudentsMap.values()), ...newStudents]
UpdatedStore(st) == MapValues(st.map) \o st.newStudents

MappedDataOf(records) == [i \in 1..Len(records) |-> records[i].mappedData]

updateStudentRecords(processedRecords, students, clock) ==
    UpdatedStore(UpdateLoop(
        [map |-> MapFrom(<<>>, students, "rollNo"), newStudents |-> <<>>],
        MappedDataOf(SelectSeq(processedRecords,
                               LAMBDA record : record.validationStatus # "error")),
        clock))

-----------------------------------------------------------------------------
(* EnhancedFileUploader: the processed records of an upload go into the store *)

\* a || b
OrElse(a, b) == IF Falsy(a) THEN b ELSE a

\* s.split(',')
RECURSIVE SplitCommaFrom(_, _, _)
SplitCommaFrom(done, piece, rest) ==
    IF Len(rest) = 0 THEN Append(done, piece)
    ELSE IF Head(rest) = ","
         THEN SplitCommaFrom(Append(done, piece), "", Tail(rest))
         ELSE SplitCommaFrom(done, piece \o Head(rest), Tail(rest))

\* record.skills.split(',').map(s => s.trim())
TrimmedPieces(s) ==
    LET pieces == SplitCommaFrom(<<>>, "", s)
    IN Arr([i \in 1..Len(pieces) |-> Str(Trim(pieces[i]))])

\* `student-${Date.now()}-${Math.random()}`
GeneratedId(clock, random) ==
    Str("student-" \o ToString(clock) \o "-0." \o ToString(random))

mapRecordToStudent(record, clock, random) ==
    [id |-> OrElse(Get(record, "PRN"), OrElse(Get(record, "id"), GeneratedId(clock, random))),
     rollNo |-> OrElse(Get(record, "PRN"), OrElse(Get(record, "rollNo"), Str(""))),
     name |-> OrElse(Get(record, "name"), Str("")),
     department |-> OrElse(Get(record, "department"), Str("CS")),
     year |-> OrElse(Get(record, "year"), Str("FY")),
     cgpa |-> IF Get(record, "cgpa").t = "number" THEN Get(record, "cgpa")
              ELSE OrElse(ParseFloat(ToStr(Get(record, "cgpa"))), Num(0)),
     skills |-> IF IsArray(Get(record, "skills")) THEN Get(record, "skills")
                ELSE IF Get(record, "skills").t = "string"
                THEN TrimmedPieces(Get(record, "skills").v)
                ELSE Arr(<<>>),
     certifications |-> Arr(<<>>),
     testScores |-> Arr(<<>>),
     email |-> OrElse(Get(record, "email"), Str("")),
     phone |-> OrElse(Get(record, "phone"), Str("")),
     address |-> OrElse(Get(record, "address"), Str("")),
     dateOfBirth |-> OrElse(Get(record, "dateOfBirth"), Str("")),
     gender |-> OrElse(Get(record, "gender"), Str("other")),
     bloodGroup |-> OrElse(Get(record, "bloodGroup"), Str("")),
     parentName |-> OrElse(Get(record, "parentName"), Str("")),
     parentPhone |-> OrElse(Get(record, "parentPhone"), Str("")),
     parentEmail |-> OrElse(Get(record, "parentEmail"), Str("")),
     achievements |-> Arr(<<>>),
     internships |-> Arr(<<>>),
     projects |-> Arr(<<>>),
     attendance |-> Num(0),
     backlogCount |-> Num(0),
     isEligibleForPlacements |-> Bool(FALSE),
     placementStatus |-> Str("not_eligible"),
     createdAt |-> IsoTime(clock),
     updatedAt |-> IsoTime(clock)]

\* one turn of incoming.forEach
MergeStudentsStep(map, student) ==
    IF MapHas(map, student.id)
    THEN MapSet(map, student.id, Spread(MapValue(map, student.id), student))
    ELSE MapSet(map, student.id, student)

RECURSIVE MergeStudentsLoop(_, _)
MergeStudentsLoop(map, incoming) ==
    IF incoming = <<>> THEN map
    ELSE MergeStudentsLoop(MergeStudentsStep(map, Head(incoming)), Tail(incoming))

mergeStudents(existing, incoming) ==
    MapValues(MergeStudentsLoop(MapFrom(<<>>, existing, "id"), incoming))

-----------------------------------------------------------------------------
(* FileValidator.validateExcelFile and DataProcessor.processFiles           *)
(*                                                                         *)
(* A File is the first sheet it holds: its name, the header row and the    *)
(* rows under it, a cell left empty being undefined.                       *)

\* regex.test(s) for one literal word of a pattern without anchors
RECURSIVE Includes(_, _)
Includes(s, word) ==
    IF Len(s) < Len(word) THEN FALSE
    ELSE IF SubSeq(s, 1, Len(word)) = word THEN TRUE
    ELSE Includes(Tail(s), word)

\* /w1|w2|.../i.test(s)
TestAny(s, words) == \E w \in words : Includes(ToLowerCase(s), w)

\* PRN_PATTERN.test(s): /^[A-Za-z0-9]+$/
PrnPatternTest(s) ==
    /\ Len(s) > 0
    /\ \A i \in 1..Len(s) : CharAt(s, i) \in UpperChars \cup LowerChars \cup DigitChars

\* headers.findIndex(header => header?.toLowerCase() === 'prn'), counted from 1; 0 for -1
PrnColumnIndex(headers) ==
    IF \E i \in 1..Len(headers) : ToLowerCase(headers[i]) = "prn"
    THEN CHOOSE i \in 1..Len(headers) :
            /\ ToLowerCase(headers[i]) = "prn"
            /\ \A j \in 1..(i - 1) : ToLowerCase(headers[j]) # "prn"
    ELSE 0

\* one turn of the loop over the rows: i is the index of the row in data, from 1
PrnErrors(prn, i) ==
    IF Falsy(prn) THEN <<"Missing PRN in row " \o ToString(i + 1)>>
    ELSE IF ~PrnPatternTest(ToStr(prn))
    THEN <<"Invalid PRN format in row " \o ToString(i + 1) \o ": " \o ToStr(prn)>>
    ELSE <<>>

RECURSIVE PrnLoop(_, _, _, _)
PrnLoop(errors, rows, prnColumnIndex, i) ==
    IF i > Len(rows) THEN errors
    ELSE PrnLoop(errors \o PrnErrors(rows[i][prnColumnIndex], i), rows, prnColumnIndex,
                 i + 1)

ValidationOf(errors) == [isValid |-> Len(errors) = 0, errors |-> errors]

validateExcelFile(file) ==
    IF Len(file.rows) + 1 < 2
    THEN [isValid |-> FALSE, errors |-> <<"File is empty or contains only headers">>]
    ELSE IF PrnColumnIndex(file.headers) = 0
    THEN [isValid |-> FALSE, errors |-> <<"Missing required PRN column">>]
    ELSE ValidationOf(PrnLoop(<<>>, file.rows, PrnColumnIndex(file.headers), 1))

\* the ProcessingStats resetStats() makes; of its fields the timestamp is left out
resetStats ==
    [filesProcessed |-> 0, recordsProcessed |-> 0, errors |-> <<>>, mergedRecords |-> 0,
     newColumns |-> <<>>, conflicts |-> <<>>]

\* this.processingStats.errors.push({ file: file.name, error: validation.errors.join(', ') })
RejectFile(stats, file, fileValidation) ==
    [stats EXCEPT !.errors = Append(@, [file |-> file.name,
                                        error |-> Joined(fileValidation.errors)])]

inferDataType(column) ==
    IF TestAny(column, {"date", "dob", "joined"}) THEN "date"
    ELSE IF TestAny(column, {"email"}) THEN "email"
    ELSE IF TestAny(column, {"phone", "mobile"}) THEN "phone"
    ELSE IF TestAny(column, {"score", "grade", "cgpa", "percentage"}) THEN "number"
    ELSE IF TestAny(column, {"is", "has", "can", "should"}) THEN "boolean"
    ELSE IF TestAny(column, {"skills", "technologies", "languages"}) THEN "array"
    ELSE IF TestAny(column, {"description", "details", "address"}) THEN "text"
    ELSE "string"

\* value.split(/[,;|]/).map(item => item.trim())
SplitTrimmed(pieces) == Arr([i \in 1..Len(pieces) |-> Str(Trim(pieces[i]))])

\* the cells are strings and numbers, never a Date
normalizeValue(value, type) ==
    CASE type = "date" -> value
      [] type = "number" ->
            IF value.t = "number" THEN value ELSE OrElse(ParseFloat(ToStr(value)), value)
      [] type = "boolean" ->
            IF value.t = "string" /\ ToLowerCase(value.v) \in {"yes", "true", "1"}
            THEN Bool(TRUE)
            ELSE IF value.t = "string" /\ ToLowerCase(value.v) \in {"no", "false", "0"}
            THEN Bool(FALSE)
            ELSE value
      [] type = "array" ->
            IF value.t = "string" THEN SplitTrimmed(Split(value.v))
            ELSE IF IsArray(value) THEN value ELSE Arr(<<value>>)
      [] OTHER -> value

\* utils.sheet_to_json(worksheet): one object per row, keyed by the header row; a
\* record is held as its entries [key, value] in the order of the headers, an empty
\* cell giving no entry
RECURSIVE EntriesFrom(_, _, _, _)
EntriesFrom(entries, headers, row, i) ==
    IF i > Len(headers) THEN entries
    ELSE IF row[i] = Undefined THEN EntriesFrom(entries, headers, row, i + 1)
    ELSE EntriesFrom(Append(entries, [key |-> headers[i], value |-> row[i]]),
                     headers, row, i + 1)

SheetRecord(headers, row) == EntriesFrom(<<>>, headers, row, 1)

\* record[key]
EntryValue(record, key) == IF MapHas(record, key) THEN MapValue(record, key) ELSE Undefined

\* columnMappings.get(key) || key
MappedKey(columnMappings, key) ==
    IF MapHas(columnMappings, key) /\ MapValue(columnMappings, key) # ""
    THEN MapValue(columnMappings, key)
    ELSE key

\* one turn of Object.entries(record).forEach
ProcessEntry(processed, key, value, columnMappings) ==
    IF Contains(knownColumns, MappedKey(columnMappings, key)) \/ MapHas(columnMappings, key)
    THEN Put(processed, MappedKey(columnMappings, key),
             normalizeValue(value, inferDataType(MappedKey(columnMappings, key))))
    ELSE processed

RECURSIVE ProcessEntries(_, _, _)
ProcessEntries(processed, entries, columnMappings) ==
    IF entries = <<>> THEN processed
    ELSE ProcessEntries(ProcessEntry(processed, Head(entries).key, Head(entries).value,
                                     columnMappings),
                        Tail(entries), columnMappings)

processRecord(record, columnMappings) ==
    ProcessEntries([PRN |-> EntryValue(record, "PRN")], record, columnMappings)

\* a run of processFiles: the ProcessingStats it writes to and its records Map
RunOf(stats, records) == [stats |-> stats, records |-> records]

\* this.processingStats.conflicts.push({...}) when conflicts.length > 0
WithConflicts(stats, existing, processedRecord, conflicts) ==
    IF Len(conflicts) > 0
    THEN [stats EXCEPT !.conflicts = Append(@, [prn |-> processedRecord.PRN,
                                                conflicts |-> conflicts,
                                                existing |-> existing,
                                                incoming |-> processedRecord])]
    ELSE stats

\* the record is merged into the one the Map holds under its PRN
MergedInto(run, processedRecord, existing) ==
    RunOf([WithConflicts(run.stats, existing, processedRecord,
                         detectConflicts(existing, processedRecord))
              EXCEPT !.mergedRecords = @ + 1, !.recordsProcessed = @ + 1],
          MapSet(run.records, processedRecord.PRN,
                 mergeRecords(existing, processedRecord, "smart")))

\* one turn of data.forEach
RecordStep(run, processedRecord) ==
    IF ~Falsy(processedRecord.PRN) /\ MapHas(run.records, processedRecord.PRN)
    THEN MergedInto(run, processedRecord, MapValue(run.records, processedRecord.PRN))
    ELSE IF ~Falsy(processedRecord.PRN)
    THEN RunOf([run.stats EXCEPT !.recordsProcessed = @ + 1],
               MapSet(run.records, processedRecord.PRN, processedRecord))
    ELSE RunOf([run.stats EXCEPT !.recordsProcessed = @ + 1], run.records)

RECURSIVE RecordLoop(_, _, _, _)
RecordLoop(run, headers, rows, columnMappings) ==
    IF rows = <<>> THEN run
    ELSE RecordLoop(RecordStep(run, processRecord(SheetRecord(headers, Head(rows)),
                                                  columnMappings)),
                    headers, Tail(rows), columnMappings)

\* newColumns = [...newColumns, ...schemaValidation.unmappedColumns]
WithNewColumns(stats, unmappedColumns) ==
    IF Len(unmappedColumns) > 0
    THEN [stats EXCEPT !.newColumns = @ \o unmappedColumns]
    ELSE stats

FileCounted(run) == RunOf([run.stats EXCEPT !.filesProcessed = @ + 1], run.records)

\* the headers options.columnMappings holds
MappedHeaders(columnMappings) == {columnMappings[i].key : i \in 1..Len(columnMappings)}

\* the body of the loop for a file that passed validateExcelFile.  Of the options,
\* columnMappings is a parameter (the empty Map when the caller gives none);
\* allowNewColumns is true and the mergeStrategy 'smart', as no caller sets them
ReadFile(run, file, columnMappings) ==
    FileCounted(RecordLoop(RunOf(WithNewColumns(run.stats,
                                     validateSchema(file.headers,
                                         MappedHeaders(columnMappings)).unmappedColumns),
                                 run.records),
                           file.headers, file.rows, columnMappings))

\* if (department && year), then the arrays are made when missing and the record pushed
Organized(departments, record, department, year) ==
    IF Falsy(department) \/ Falsy(year) THEN departments
    ELSE MapSet(departments, ToStr(department),
                MapSet(IF MapHas(departments, ToStr(department))
                       THEN MapValue(departments, ToStr(department)) ELSE <<>>,
                       ToStr(year),
                       Append(IF /\ MapHas(departments, ToStr(department))
                                 /\ MapHas(MapValue(departments, ToStr(department)),
                                           ToStr(year))
                              THEN MapValue(MapValue(departments, ToStr(department)),
                                            ToStr(year))
                              ELSE <<>>,
                              record)))

RECURSIVE OrganizeLoop(_, _)
OrganizeLoop(departments, records) ==
    IF records = <<>> THEN departments
    ELSE OrganizeLoop(Organized(departments, Head(records), Get(Head(records), "department"),
                                Get(Head(records), "year")),
                      Tail(records))

\* ProcessedData: departments, an object of objects of arrays, held as Maps
organizeData(records) == [departments |-> OrganizeLoop(<<>>, records)]

RECURSIVE Flattened(_)
Flattened(lists) == IF lists = <<>> THEN <<>> ELSE Head(lists) \o Flattened(Tail(lists))

\* getProcessedStudentRecords over processor.getData(): cache.get('latest')
getProcessedStudentRecords(latest) ==
    IF ~MapHas(latest, "latest") THEN <<>>
    ELSE Flattened([d \in 1..Len(MapValue(latest, "latest").departments) |->
                       Flattened(MapValues(MapValue(latest, "latest").departments[d].value))])

\* the loop of processFiles run without another invocation in between
RECURSIVE FilesLoop(_, _, _)
FilesLoop(run, files, columnMappings) ==
    IF files = <<>> THEN run
    ELSE IF ~validateExcelFile(Head(files)).isValid
    THEN FilesLoop(RunOf(RejectFile(run.stats, Head(files), validateExcelFile(Head(files))),
                         run.records),
                   Tail(files), columnMappings)
    ELSE FilesLoop(ReadFile(run, Head(files), columnMappings), Tail(files), columnMappings)

processFiles(files, columnMappings) == FilesLoop(RunOf(resetStats, <<>>), files, columnMappings)

\* processStudentFiles(files): processor.processFiles(files), the options left out
processStudentFiles(files) == processFiles(files, <<>>)

\* the invocations of processFiles that may be under way together
Invocations == 1..2

IdleCall == [pc |-> "idle", files |-> <<>>, at |-> 0, records |-> <<>>, result |-> 0]

\* the processor as the module makes it (const processor = new DataProcessor())
ProcessIdle ==
    /\ processingStats = <<resetStats>>
    /\ cache = <<>>
    /\ calls = [p \in Invocations |-> IdleCall]

UploaderIdle ==
    /\ upFiles = <<>>
    /\ upNewColumns = <<>>
    /\ upColumnMappings = <<>>
    /\ upToast = ""

NoSchemaResult == [isValid |-> FALSE, unmappedColumns |-> <<>>, none |-> TRUE]

SchemaIdle ==
    /\ scHeaders = <<>>
    /\ scOverrides = {}
    /\ scResult = NoSchemaResult

NoScore == [none |-> TRUE]

SimilarityIdle ==
    /\ simStr1 = ""
    /\ simStr2 = ""
    /\ simScore = NoScore

\* no DataTransferResult has been returned yet
NoHeld == [held |-> FALSE, live |-> FALSE, returned |-> <<>>, auditTrail |-> <<>>]

\* auditTrail: this.auditTrail (line 521) hands the result the array itself.  The
\* first result returned is recorded with the entries it had when it was returned;
\* for as long as its array is the one the DataMapper pushes to, the entries its
\* holder reads are those of the trail
Held(held, trail) ==
    IF ~held.held
    THEN [held |-> TRUE, live |-> TRUE, returned |-> trail, auditTrail |-> trail]
    ELSE IF held.live THEN [held EXCEPT !.auditTrail = trail]
    ELSE held

MapperIdle ==
    /\ existingStudents = <<>>
    /\ auditTrail = <<>>
    /\ validation = NoValidation
    /\ transfer = NoTransfer
    /\ trailCopy = <<>>
    /\ heldTrail = NoHeld
    /\ uuidCounter = 0
    /\ now = 0
    /\ pc = "idle"
    /\ currentStep = ""
    /\ mappingsProp = <<>>
    /\ rawDataProp = <<>>

Init ==
    /\ existingStudents \in StorePool
    /\ auditTrail = <<>>
    /\ validation = NoValidation
    /\ transfer = NoTransfer
    /\ trailCopy = <<>>
    /\ heldTrail = NoHeld
    /\ uuidCounter = 0
    /\ now = 0
    /\ pc = "idle"
    /\ currentStep = ""
    /\ mappingsProp = <<>>
    /\ rawDataProp = <<>>
    /\ MergeIdle
    /\ upNewStudents = <<>>
    /\ UploaderIdle
    /\ ProcessIdle
    /\ SchemaIdle
    /\ SimilarityIdle

\* a client's call of validateAndMapData on a sheet and column mappings of its
\* choice, as handleSaveAllMappings makes it at lines 1159-1163 but without the
\* guards of that flow (SaveAllMappings is the guarded call); a round is begun only
\* when the clock leaves room for its transfer
Validate ==
    /\ pc = "idle"
    /\ now + 1 < MaxClock
    /\ \E rawData \in Batches, mappings \in MappingPool :
          /\ mappingsProp' = mappings
          /\ rawDataProp' = rawData
          /\ validation' = validateAndMapData(rawData, mappings, existingStudents,
                                              uuidCounter, now)
    /\ uuidCounter' = validation'.uuid
    /\ now' = now + 1
    /\ pc' = "validated"
    /\ currentStep' = "Validating data..."
    /\ UNCHANGED <<existingStudents, auditTrail, transfer, trailCopy, heldTrail>>
    /\ UNCHANGED processorVars

\* handleSaveAllMappings, lines 1168-1177: the flow ends on a validation that is
\* not valid
ValidationFailed ==
    /\ pc = "validated"
    /\ ~validation.isValid
    /\ currentStep' = "Validation failed"
    /\ pc' = "idle"
    /\ UNCHANGED <<existingStudents, auditTrail, validation, transfer, trailCopy, heldTrail,
                   uuidCounter, now, mappingsProp, rawDataProp>>
    /\ UNCHANGED processorVars

\* a client's call of transferDataToStudentTable on the validation result and the
\* same store, as lines 1183-1186 make it, whether or not the result is valid
\* (SaveTransfer is the call the flow makes)
Transfer ==
    /\ pc = "validated"
    /\ transfer' = transferDataToStudentTable(validation, existingStudents, auditTrail,
                                              uuidCounter, now)
    /\ auditTrail' = transfer'.auditTrail
    /\ existingStudents' = transfer'.existingStudents
    /\ uuidCounter' = transfer'.uuid
    /\ now' = now + 1
    /\ heldTrail' = Held(heldTrail, transfer'.auditTrail)
    /\ pc' = "transferred"
    /\ currentStep' = "Transferring data to student table..."
    /\ UNCHANGED <<validation, trailCopy, mappingsProp, rawDataProp>>
    /\ UNCHANGED processorVars

\* lines 1190-1199: the flow ends on a transfer without success
TransferFailed ==
    /\ pc = "transferred"
    /\ ~transfer.success
    /\ currentStep' = "Transfer failed"
    /\ pc' = "idle"
    /\ UNCHANGED <<existingStudents, auditTrail, validation, transfer, trailCopy, heldTrail,
                   uuidCounter, now, mappingsProp, rawDataProp>>
    /\ UNCHANGED processorVars

\* lines 1201-1219: the store becomes updateStudentRecords(validation.processedRecords)
\* and the flow completes
UpdateStudentRecords ==
    /\ pc = "transferred"
    /\ transfer.success
    /\ existingStudents' = updateStudentRecords(validation.processedRecords,
                                                existingStudents, now)
    /\ currentStep' = "Complete"
    /\ pc' = "idle"
    /\ UNCHANGED <<auditTrail, validation, transfer, trailCopy, heldTrail, uuidCounter, now,
                   mappingsProp, rawDataProp>>
    /\ UNCHANGED processorVars

\* lines 1230-1233: the timer set when the flow ends blanks the step shown
ResetProgress ==
    /\ pc = "idle"
    /\ currentStep # ""
    /\ currentStep' = ""
    /\ UNCHANGED <<existingStudents, auditTrail, validation, transfer, trailCopy, heldTrail,
                   uuidCounter, now, pc, mappingsProp, rawDataProp>>
    /\ UNCHANGED processorVars

GetTrail ==
    /\ trailCopy' = getAuditTrail(auditTrail)
    /\ UNCHANGED <<existingStudents, auditTrail, validation, transfer, heldTrail,
                   uuidCounter, now, pc, currentStep, mappingsProp, rawDataProp>>
    /\ UNCHANGED processorVars

\* this.auditTrail = []: the DataMapper turns to a new array, and the array a
\* result holds is no longer the one later entries are pushed to
ClearTrail ==
    /\ auditTrail' = clearAuditTrail(auditTrail)
    /\ heldTrail' = [heldTrail EXCEPT !.live = FALSE]
    /\ UNCHANGED <<existingStudents, validation, transfer, trailCopy, uuidCounter, now, pc,
                   currentStep, mappingsProp, rawDataProp>>
    /\ UNCHANGED processorVars

Next ==
    \/ Validate
    \/ ValidationFailed
    \/ Transfer
    \/ TransferFailed
    \/ UpdateStudentRecords
    \/ ResetProgress
    \/ GetTrail
    \/ ClearTrail

Spec == Init /\ [][Next]_vars

\* mergeRecords applied to two records of one PRN, the DataMapper not in use
MergeInit ==
    /\ MapperIdle
    /\ mrExisting \in StudentRecords
    /\ mrIncoming \in StudentRecords
    /\ mrStrategy \in MergeStrategies
    /\ mrResult = NoResult
    /\ mrConflicts = <<>>
    /\ upNewStudents = <<>>
    /\ UploaderIdle
    /\ ProcessIdle
    /\ SchemaIdle
    /\ SimilarityIdle

SpecMerge == MergeInit /\ [][MergeNext]_vars

\* the records getProcessedStudentRecords returns: the records the processor keeps,
\* one per PRN, each with the values normalizeValue left in it
UploadRecord(prn, name, cgpa, skills) ==
    [PRN |-> Str(prn), name |-> Str(name), department |-> Str("CS"), year |-> Str("TY"),
     cgpa |-> cgpa, skills |-> skills]

UploadRecords ==
    {UploadRecord("CS001", "Asha Rao", Num(85), StrArr(<<"Python">>)),
     UploadRecord("CS001", "Asha R", Str(""), StrArr(<<"Java">>)),
     UploadRecord("CS002", "Ravi K", Num(90), StrArr(<<"Java", "Python">>)),
     UploadRecord("IT002", "Vikram Shah", Str("7.2"), Arr(<<>>))}

DistinctPRNs(records) ==
    \A i, j \in 1..Len(records) : i # j => records[i].PRN # records[j].PRN

UploadBatches ==
    {records \in SeqsUpTo(UploadRecords, MaxRows) : records # <<>> /\ DistinctPRNs(records)}

MappedStudents(processedRecords, clock, random) ==
    [i \in 1..Len(processedRecords) |->
        mapRecordToStudent(processedRecords[i], clock, random)]

\* the uploader in front of a store, the DataMapper and the processor's merge idle
UploadInit ==
    /\ existingStudents \in StorePool \cup {<<>>}
    /\ auditTrail = <<>>
    /\ validation = NoValidation
    /\ transfer = NoTransfer
    /\ trailCopy = <<>>
    /\ heldTrail = NoHeld
    /\ uuidCounter = 0
    /\ now = 0
    /\ pc = "idle"
    /\ currentStep = ""
    /\ mappingsProp = <<>>
    /\ rawDataProp = <<>>
    /\ mrExisting = EmptyObject
    /\ mrIncoming = EmptyObject
    /\ mrStrategy = "smart"
    /\ mrResult = NoResult
    /\ mrConflicts = <<>>
    /\ upNewStudents = <<>>
    /\ UploaderIdle
    /\ ProcessIdle
    /\ SchemaIdle
    /\ SimilarityIdle

\* processFilesWithMappings, lines 112-116: the processed records become students
\* and the store becomes mergeStudents(students, newStudents)
Upload ==
    /\ now < MaxClock
    /\ \E processedRecords \in UploadBatches, random \in 0..1 :
          upNewStudents' = MappedStudents(processedRecords, now, random)
    /\ existingStudents' = mergeStudents(existingStudents, upNewStudents')
    /\ now' = now + 1
    /\ UNCHANGED <<auditTrail, validation, transfer, trailCopy, heldTrail, uuidCounter, pc,
                   currentStep, mappingsProp, rawDataProp>>
    /\ UNCHANGED <<upFiles, upNewColumns, upColumnMappings, upToast>>
    /\ UNCHANGED <<mergeVars, processVars, schemaVars, similarityVars>>

UploadNext == Upload

SpecUpload == UploadInit /\ [][UploadNext]_vars

\* the headers of the sheets: known columns, headers near a known column and
\* headers near none
HeaderPool ==
    {"PRN", "name", "Name", "Student Name ", "E-mail", "Roll No", "CGPA ", "Skill",
     "Phone No", "Remarks"}

MaxHeaders == 2

HeaderRows == SeqsUpTo(HeaderPool, MaxHeaders)

OverridePool == {{}, {"Roll No"}}

\* validateSchema in front of a header row, everything else idle
SchemaInit ==
    /\ MapperIdle
    /\ MergeIdle
    /\ upNewStudents = <<>>
    /\ UploaderIdle
    /\ ProcessIdle
    /\ SimilarityIdle
    /\ scHeaders \in HeaderRows
    /\ scOverrides \in OverridePool
    /\ scResult = NoSchemaResult

\* processFiles, line 160: the header row of a sheet is validated against the
\* known columns and the column mappings of the options
ValidateSchema ==
    /\ scResult = NoSchemaResult
    /\ scResult' = validateSchema(scHeaders, scOverrides)
    /\ UNCHANGED <<scHeaders, scOverrides>>
    /\ UNCHANGED <<mapperVars, mergeVars, uploadVars, processVars, similarityVars>>

SchemaNext == ValidateSchema

SpecSchema == SchemaInit /\ [][SchemaNext]_vars

\* the strings the similarity is computed on: all strings over two letters
MaxStrLen == 3

Letters == {"a", "b"}

RECURSIVE StringsUpTo(_)
StringsUpTo(n) ==
    IF n = 0 THEN {""}
    ELSE LET shorter == StringsUpTo(n - 1)
         IN shorter \cup {w \o c : w \in {x \in shorter : Len(x) = n - 1}, c \in Letters}

SimilarityInit ==
    /\ MapperIdle
    /\ MergeIdle
    /\ upNewStudents = <<>>
    /\ UploaderIdle
    /\ ProcessIdle
    /\ SchemaIdle
    /\ simStr1 \in StringsUpTo(MaxStrLen)
    /\ simStr2 \in StringsUpTo(MaxStrLen)
    /\ simScore = NoScore

\* suggestColumnMapping, line 259: the similarity of two strings is computed
Score ==
    /\ simScore = NoScore
    /\ simScore' = [distance |-> editDistance(simStr1, simStr2),
                    similarity |-> calculateSimilarity(simStr1, simStr2)]
    /\ UNCHANGED <<simStr1, simStr2>>
    /\ UNCHANGED <<mapperVars, mergeVars, uploadVars, processVars, schemaVars>>

SimilarityNext == Score

SpecSimilarity == SimilarityInit /\ [][SimilarityNext]_vars

-----------------------------------------------------------------------------
(* validateAndMapData applied to one-row sheets with optional columns *)

\* the cells a sheet may hold besides the six columns of Row
NoOptionalCells == EmptyObject

TextOptionalCells ==
    [c \in {"Attendance", "Placement", "Certifications", "Eligible", "Gender"} |->
        CASE c = "Attendance" -> Str("85") [] c = "Placement" -> Str("hired")
          [] c = "Certifications" -> Str("AWS") [] c = "Eligible" -> Str("yes")
          [] c = "Gender" -> Str("Male")]

TypedOptionalCells ==
    [c \in {"Attendance", "Placement", "Eligible", "Gender"} |->
        CASE c = "Attendance" -> Num(850) [] c = "Placement" -> Str("placed")
          [] c = "Eligible" -> Bool(TRUE) [] c = "Gender" -> Str("female")]

OptionalCellsPool == {NoOptionalCells, TextOptionalCells, TypedOptionalCells}

\* rows whose required cells are present, empty, out of range or not convertible
SheetRows ==
    {Spread(Row(prn, name, dept, Str("TY"), cgpa, Str("Java; Python")), optional) :
        prn \in {Str("CS009"), Str("")},
        name \in {Str("Asha Rao"), Null},
        dept \in {Str("CS"), Str("Civil")},
        cgpa \in {Str("8.5"), Num(0), Str("0"), Str("abc"), Str("")},
        optional \in OptionalCellsPool}

\* every column of the sheet mapped to its field
WideMapping ==
    FullMapping \o
    <<Mapped("Attendance", "attendance"), Mapped("Placement", "placementStatus"),
      Mapped("Certifications", "certifications"),
      Mapped("Eligible", "isEligibleForPlacements"), Mapped("Gender", "gender")>>

SheetMappings == {WideMapping, UnresolvedMapping}

ValidateInit ==
    /\ existingStudents = <<StudentCS001>>
    /\ auditTrail = <<>>
    /\ validation = NoValidation
    /\ transfer = NoTransfer
    /\ trailCopy = <<>>
    /\ heldTrail = NoHeld
    /\ uuidCounter = 0
    /\ now = 0
    /\ pc = "idle"
    /\ currentStep = ""
    /\ mappingsProp \in SheetMappings
    /\ rawDataProp \in {<<row>> : row \in SheetRows}
    /\ MergeIdle
    /\ upNewStudents = <<>>
    /\ UploaderIdle
    /\ ProcessIdle
    /\ SchemaIdle
    /\ SimilarityIdle

\* validateAndMapData(rawData, columnMappings, existingStudents) on the sheet drawn
ValidateSheet ==
    /\ pc = "idle"
    /\ validation' = validateAndMapData(rawDataProp, mappingsProp, existingStudents,
                                        uuidCounter, now)
    /\ uuidCounter' = validation'.uuid
    /\ now' = now + 1
    /\ pc' = "validated"
    /\ UNCHANGED <<existingStudents, auditTrail, transfer, trailCopy, heldTrail, currentStep,
                   mappingsProp, rawDataProp>>
    /\ UNCHANGED processorVars

ValidateNext == ValidateSheet

SpecValidate == ValidateInit /\ [][ValidateNext]_vars

-----------------------------------------------------------------------------
(* The save flow of DataMappingManager over column mappings the caller resolves *)

\* the column mappings the flow begins with: Dept and CGPA are pending, Skills has
\* no mapping
PendingMapping ==
    <<Mapped("PRN", "rollNo"), Mapped("Student Name", "name"),
      Unresolved("Dept", "department", "pending"), Mapped("Year", "year"),
      Unresolved("CGPA", "cgpa", "pending")>>

\* the sheets the flow is given: none, a new student, an update next to a row in error
SaveSheets ==
    {<<>>,
     <<Row(Str("CS002"), Str("Ravi K"), Str("IT"), Str("SY"), Num(90), Str("Java; Python"))>>,
     <<Row(Str("CS001"), Str("Asha Rao"), Str("CS"), Str("TY"), Str("8.5"), Str("Python")),
       Row(Str("CS003"), Str("Meera"), Str("CS"), Str("FY"), Str("11.5"), Str(""))>>}

\* pendingMappings looking for an action no mapping carries, which finds none
pendingMappingsUnmapped(columnMappings) ==
    SelectSeq(columnMappings, LAMBDA m : m.action = "unmapped")

\* columnMappings.filter(m => m.action === 'pending')
pendingMappings(columnMappings) ==
    SelectSeq(columnMappings, LAMBDA m : m.action = "pending")

SaveInit ==
    /\ existingStudents = <<StudentCS001>>
    /\ auditTrail = <<>>
    /\ validation = NoValidation
    /\ transfer = NoTransfer
    /\ trailCopy = <<>>
    /\ heldTrail = NoHeld
    /\ uuidCounter = 0
    /\ now = 0
    /\ pc = "idle"
    /\ currentStep = ""
    /\ mappingsProp = PendingMapping
    /\ rawDataProp \in SaveSheets
    /\ MergeIdle
    /\ upNewStudents = <<>>
    /\ UploaderIdle
    /\ ProcessIdle
    /\ SchemaIdle
    /\ SimilarityIdle

\* HeaderMapping.handleUpdateMapping(index, action): the caller sets the column at
\* index to map or to skip
HandleUpdateMapping ==
    /\ \E index \in 1..Len(mappingsProp), action \in {"map", "skip"} :
          mappingsProp' = [mappingsProp EXCEPT ![index].action = action]
    /\ UNCHANGED <<existingStudents, auditTrail, validation, transfer, trailCopy, heldTrail,
                   uuidCounter, now, pc, currentStep, rawDataProp>>
    /\ UNCHANGED processorVars

\* handleSaveAllMappings, lines 1131-1166: the flow returns at once on an empty sheet
\* or while a mapping is pending; otherwise validateAndMapData is called on the
\* sheet, the column mappings and the store
SaveAllMappings ==
    /\ pc = "idle"
    /\ now + 1 < MaxClock
    /\ Len(rawDataProp) # 0
    /\ Len(pendingMappings(mappingsProp)) = 0
    /\ validation' = validateAndMapData(rawDataProp, mappingsProp, existingStudents,
                                        uuidCounter, now)
    /\ uuidCounter' = validation'.uuid
    /\ now' = now + 1
    /\ pc' = "validated"
    /\ currentStep' = "Validating data..."
    /\ UNCHANGED <<existingStudents, auditTrail, transfer, trailCopy, heldTrail, mappingsProp,
                   rawDataProp>>
    /\ UNCHANGED processorVars

\* lines 1168-1188: the transfer is reached with a valid result only
SaveTransfer ==
    /\ validation.isValid
    /\ Transfer

\* a transfer of a valid result has no error and succeeds, so the flow does not end
\* at 'Transfer failed'
SaveNext ==
    \/ HandleUpdateMapping
    \/ SaveAllMappings
    \/ ValidationFailed
    \/ SaveTransfer
    \/ UpdateStudentRecords
    \/ ResetProgress

SpecSave == SaveInit /\ [][SaveNext]_vars

-----------------------------------------------------------------------------
(* processStudentFiles invocations on the one DataProcessor of the module,   *)
(* their steps taken in turn at the await points                            *)

FileA == [name |-> "a.xlsx",
          headers |-> <<"PRN", "name", "department", "year", "cgpa">>,
          rows |-> << <<Str("P1"), Str("Asha"), Str("CS"), Str("FY"), Num(85)>>,
                      <<Str("P2"), Str("Ravi"), Str("IT"), Str("SY"), Num(70)>> >>]

\* a second sheet about P1, with another cgpa and a column the processor does not know
FileB == [name |-> "b.xlsx",
          headers |-> <<"PRN", "cgpa", "skills", "Remarks">>,
          rows |-> << <<Str("P1"), Num(90), Str("Java, Python"), Str("ok")>> >>]

\* the PRN header in lower case
FileC == [name |-> "c.xlsx",
          headers |-> <<"prn", "name", "department", "year">>,
          rows |-> << <<Str("P3"), Str("Meena"), Str("CS"), Str("FY")>> >>]

\* no department and no year
FileD == [name |-> "d.xlsx",
          headers |-> <<"PRN", "name">>,
          rows |-> << <<Str("P4"), Str("Kiran")>> >>]

\* a row without a PRN and a PRN that is not alphanumeric
FileE == [name |-> "e.xlsx",
          headers |-> <<"PRN", "name">>,
          rows |-> << <<Undefined, Str("Nobody")>>, <<Str("P-5"), Str("Dash")>> >>]

\* only the header row
FileF == [name |-> "f.xlsx", headers |-> <<"PRN", "name">>, rows |-> <<>>]

FileLists == {<<>>, <<FileA>>, <<FileB>>, <<FileC>>, <<FileD>>, <<FileA, FileB>>,
              <<FileE, FileA>>, <<FileD, FileF>>}

\* a[a.length - 1] = x
SetLast(q, x) == [q EXCEPT ![Len(q)] = x]

\* the end of the loop body for the file at hand: the next file is validated, or,
\* after the last one, the records are organized and cached and
\* this.processingStats is returned
Continue(p, run) ==
    IF calls[p].at < Len(calls[p].files)
    THEN /\ processingStats' = SetLast(processingStats, run.stats)
         /\ calls' = [calls EXCEPT ![p] = [@ EXCEPT !.pc = "validating", !.at = @ + 1,
                                                     !.records = run.records]]
         /\ UNCHANGED cache
    ELSE /\ processingStats' = SetLast(processingStats, run.stats)
         /\ cache' = MapSet(cache, "latest", organizeData(MapValues(run.records)))
         /\ calls' = [calls EXCEPT ![p] = [@ EXCEPT !.pc = "done",
                                                     !.records = run.records,
                                                     !.result = Len(processingStats)]]

\* processFiles up to its first await: the records Map is made and the stats are
\* reset; without a file the function runs to its return
ProcessFiles(p) ==
    /\ calls[p].pc = "idle"
    /\ \E files \in FileLists :
          /\ processingStats' = Append(processingStats, resetStats)
          /\ IF files = <<>>
             THEN /\ cache' = MapSet(cache, "latest", organizeData(<<>>))
                  /\ calls' = [calls EXCEPT ![p] = [@ EXCEPT !.pc = "done",
                                                     !.result = Len(processingStats) + 1]]
             ELSE /\ calls' = [calls EXCEPT ![p] = [@ EXCEPT !.pc = "validating",
                                                     !.files = files, !.at = 1]]
                  /\ UNCHANGED cache
    /\ UNCHANGED <<mapperVars, mergeVars, uploadVars, schemaVars, similarityVars>>

\* after await FileValidator.validateExcelFile(file)
FileValidated(p) ==
    /\ calls[p].pc = "validating"
    /\ IF validateExcelFile(calls[p].files[calls[p].at]).isValid
       THEN /\ calls' = [calls EXCEPT ![p].pc = "reading"]
            /\ UNCHANGED <<processingStats, cache>>
       ELSE Continue(p, RunOf(RejectFile(processingStats[Len(processingStats)],
                                         calls[p].files[calls[p].at],
                                         validateExcelFile(calls[p].files[calls[p].at])),
                              calls[p].records))
    /\ UNCHANGED <<mapperVars, mergeVars, uploadVars, schemaVars, similarityVars>>

\* after await file.arrayBuffer()
FileRead(p) ==
    /\ calls[p].pc = "reading"
    /\ Continue(p, ReadFile(RunOf(processingStats[Len(processingStats)], calls[p].records),
                            calls[p].files[calls[p].at], <<>>))
    /\ UNCHANGED <<mapperVars, mergeVars, uploadVars, schemaVars, similarityVars>>

ProcessInit ==
    /\ MapperIdle
    /\ MergeIdle
    /\ upNewStudents = <<>>
    /\ UploaderIdle
    /\ ProcessIdle
    /\ SchemaIdle
    /\ SimilarityIdle

ProcessNext ==
    \E p \in Invocations :
        \/ ProcessFiles(p)
        \/ FileValidated(p)
        \/ FileRead(p)

SpecProcess == ProcessInit /\ [][ProcessNext]_vars

-----------------------------------------------------------------------------
(* EnhancedFileUploader: files are chosen, the columns the processor does   *)
(* not know are resolved in HeaderMapping and saved.  Every handler runs to *)
(* its end before the next one starts.                                      *)

\* the files of one change event
ChosenFiles == {<<FileA>>, <<FileB>>, <<FileC>>, <<FileE>>}

\* what processFilesWithMappings does with the stats processStudentFiles returned
\* and the records the processor then holds; mappingsMap is not read by the function
AfterProcessing(run, mappingsMap, random) ==
    /\ processingStats' = Append(processingStats, run.stats)
    /\ cache' = MapSet(cache, "latest", organizeData(MapValues(run.records)))
    /\ upNewColumns' = run.stats.newColumns
    /\ upNewStudents' = MappedStudents(getProcessedStudentRecords(cache'), now, random)
    /\ existingStudents' = mergeStudents(existingStudents, upNewStudents')
    /\ now' = now + 1

processFilesWithMappings(filesToProcess, mappingsMap, random) ==
    AfterProcessing(processStudentFiles(filesToProcess), mappingsMap, random)

\* handleFileChange: the files join the list and are processed
HandleFileChange ==
    /\ now < MaxClock
    /\ \E newFiles \in ChosenFiles, random \in 0..1 :
          /\ upFiles' = upFiles \o newFiles
          /\ processFilesWithMappings(newFiles, upColumnMappings, random)
    /\ upToast' = "Files processed successfully"
    /\ UNCHANGED <<upColumnMappings, calls>>
    /\ UNCHANGED <<auditTrail, validation, transfer, trailCopy, heldTrail, uuidCounter, pc,
                   currentStep, mappingsProp, rawDataProp>>
    /\ UNCHANGED <<mergeVars, schemaVars, similarityVars>>

\* prev.findIndex(m => m.excelColumn === updatedMapping.excelColumn), counted from 1
FirstOfColumn(prev, excelColumn) ==
    CHOOSE i \in 1..Len(prev) :
        /\ prev[i].excelColumn = excelColumn
        /\ \A j \in 1..(i - 1) : prev[j].excelColumn # excelColumn

\* HeaderMapping.handleUpdateMapping(index, action) hands the updated mapping to the
\* uploader's handleUpdateMapping, which puts it in the place of the first mapping
\* of the same excelColumn
UpdateNewColumn ==
    /\ \E index \in 1..Len(upNewColumns), action \in {"map", "skip"} :
          upNewColumns' =
              [upNewColumns EXCEPT ![FirstOfColumn(upNewColumns,
                                                   upNewColumns[index].excelColumn)] =
                  [upNewColumns[index] EXCEPT !.action = action]]
    /\ UNCHANGED <<mapperVars, mergeVars, upNewStudents, upFiles, upColumnMappings, upToast,
                   processVars, schemaVars, similarityVars>>

\* one turn of newColumns.forEach in handleSaveMappings
MappingsMapStep(mappingsMap, mapping) ==
    IF mapping.action = "map" /\ mapping.excelColumn # "" /\ mapping.suggestedMapping # ""
    THEN MapSet(mappingsMap, mapping.excelColumn, mapping.suggestedMapping)
    ELSE mappingsMap

RECURSIVE MappingsMapLoop(_, _)
MappingsMapLoop(mappingsMap, mappings) ==
    IF mappings = <<>> THEN mappingsMap
    ELSE MappingsMapLoop(MappingsMapStep(mappingsMap, Head(mappings)), Tail(mappings))

\* HeaderMapping.handleSaveAll, which returns while a mapping is pending, then the
\* uploader's handleSaveMappings: the Map of the confirmed mappings is kept and all
\* the files are processed again
HandleSaveMappings ==
    /\ Len(pendingMappings(upNewColumns)) = 0
    /\ upColumnMappings' = MappingsMapLoop(<<>>, upNewColumns)
    /\ IF Len(upFiles) > 0
       THEN /\ now < MaxClock
            /\ \E random \in 0..1 :
                  processFilesWithMappings(upFiles, upColumnMappings', random)
       ELSE UNCHANGED <<processingStats, cache, upNewColumns, upNewStudents,
                        existingStudents, now>>
    /\ upToast' = "Mappings saved"
    /\ UNCHANGED <<upFiles, calls>>
    /\ UNCHANGED <<auditTrail, validation, transfer, trailCopy, heldTrail, uuidCounter, pc,
                   currentStep, mappingsProp, rawDataProp>>
    /\ UNCHANGED <<mergeVars, schemaVars, similarityVars>>

UploaderInit ==
    /\ MapperIdle
    /\ MergeIdle
    /\ upNewStudents = <<>>
    /\ UploaderIdle
    /\ ProcessIdle
    /\ SchemaIdle
    /\ SimilarityIdle

UploaderNext ==
    \/ HandleFileChange
    \/ UpdateNewColumn
    \/ HandleSaveMappings

SpecUploader == UploaderInit /\ [][UploaderNext]_vars

-----------------------------------------------------------------------------
(* What is said of a finished transfer *)

\* the batch the last transfer was given
Batch == validation.processedRecords

\* a transfer has returned and its caller has not gone on
Transferred == pc = "transferred"

\* the audit entries the last transfer appended, one per record of the batch
NewEntries ==
    SubSeq(transfer.auditTrail, Len(transfer.auditTrail) - Len(Batch) + 1,
           Len(transfer.auditTrail))

StoreRollNos == {Get(existingStudents[i], "rollNo") : i \in 1..Len(existingStudents)}

IsErrorRecord(r) == r.validationStatus = "error"

ClassOf(r) ==
    IF IsErrorRecord(r) THEN "skip"
    ELSE IF Get(r.mappedData, "rollNo") \in StoreRollNos THEN "update"
    ELSE "insert"

InClass(class) == {i \in 1..Len(Batch) : ClassOf(Batch[i]) = class}

IdsOf(students) == {Get(students[i], "id") : i \in 1..Len(students)}

RollNosOf(students) == {Get(students[i], "rollNo") : i \in 1..Len(students)}

Occurrences(students, rollNo) ==
    Cardinality({i \in 1..Len(students) : Get(students[i], "rollNo") = rollNo})

\* C1: a processed record whose validationStatus is 'error' is neither inserted nor
\* merged (no inserted, updated or resulting record stems from it: each of those
\* carries the id of the processed record it was made from), it is counted in
\* skippedCount, and its audit entry has action 'skip'.
C1_ErrorRecordsAreSkipped ==
    Transferred =>
        /\ \A i \in 1..Len(Batch) :
              IsErrorRecord(Batch[i]) =>
                 /\ Batch[i].id \notin IdsOf(transfer.newStudents)
                 /\ Batch[i].id \notin IdsOf(transfer.updatedStudents)
                 /\ Batch[i].id \notin IdsOf(transfer.allStudents)
                 /\ NewEntries[i].recordId = Batch[i].id
                 /\ NewEntries[i].action = "skip"
        /\ transfer.skippedCount
              = Cardinality({i \in 1..Len(Batch) : IsErrorRecord(Batch[i])})

\* a batch with an error record next to a record that went in
C1_Witness ==
    /\ Transferred
    /\ \E i \in 1..Len(Batch) : IsErrorRecord(Batch[i])
    /\ \E i \in 1..Len(Batch) :
          ~IsErrorRecord(Batch[i]) /\ Batch[i].id \in IdsOf(transfer.allStudents)

\* C2: the store holding pairwise distinct rollNo values, the collection that results
\* from validateAndMapData followed by transferDataToStudentTable never holds two
\* records with the same rollNo, whatever identifiers the batch repeats.
C2_UniqueIdentifiers ==
    (/\ Transferred
     /\ \A i, j \in 1..Len(existingStudents) :
           i # j => Get(existingStudents[i], "rollNo") # Get(existingStudents[j], "rollNo"))
    => \A i, j \in 1..Len(transfer.allStudents) :
          i # j => Get(transfer.allStudents[i], "rollNo")
                      # Get(transfer.allStudents[j], "rollNo")

\* a batch that repeats an identifier of its own, which is not in the store
C2_Witness ==
    /\ Transferred
    /\ \E i, j \in 1..Len(Batch) :
          /\ i < j
          /\ Batch[i].originalData["PRN"] = Batch[j].originalData["PRN"]
          /\ Str(Trim(ToStr(Batch[i].originalData["PRN"]))) \notin StoreRollNos
          /\ Get(Batch[i].mappedData, "rollNo") \in RollNosOf(transfer.allStudents)

\* C3: every processed record falls in exactly one of skip, update and insert;
\* skippedCount, duplicateCount and transferredCount count the three classes and sum
\* to the number of records; one audit entry with the matching action is appended per
\* record, in record order; a batch with a skipped record has success = false, and
\* k records without a match in the store next to m > 0 error records give
\* transferredCount = k, skippedCount = m, duplicateCount = 0.
C3_ThreeClasses ==
    Transferred =>
        /\ transfer.skippedCount = Cardinality(InClass("skip"))
        /\ transfer.duplicateCount = Cardinality(InClass("update"))
        /\ transfer.transferredCount = Cardinality(InClass("insert"))
        /\ transfer.skippedCount + transfer.duplicateCount + transfer.transferredCount
              = Len(Batch)
        /\ Len(transfer.auditTrail) >= Len(Batch)
        /\ \A i \in 1..Len(Batch) :
              /\ NewEntries[i].recordId = Batch[i].id
              /\ NewEntries[i].action = ClassOf(Batch[i])
        /\ (InClass("skip") # {} => ~transfer.success)
        /\ (InClass("skip") # {} /\ InClass("update") = {} =>
               /\ transfer.transferredCount = Len(Batch) - Cardinality(InClass("skip"))
               /\ transfer.duplicateCount = 0
               /\ ~transfer.success)

\* a batch of the three classes does not exist with two rows; this one has an insert
\* next to a skip, an earlier transfer having left entries in the trail
C3_Witness ==
    /\ Transferred
    /\ InClass("skip") # {}
    /\ InClass("insert") # {}
    /\ InClass("update") = {}
    /\ Len(transfer.auditTrail) > Len(Batch)

\* C4: for a batch produced by validateAndMapData, success is true exactly when no row
\* of the batch accumulated a validation error; a row that only drew a warning (its
\* rollNo is already in the store) leaves success true.
C4_SuccessIffNoErrors ==
    Transferred =>
        /\ transfer.success <=> (\A i \in 1..Len(Batch) : Len(Batch[i].errors) = 0)
        /\ transfer.success <=> (Len(validation.errors) = 0)
        /\ ((\A i \in 1..Len(Batch) : Batch[i].validationStatus \in {"valid", "warning"})
               => transfer.success)

\* a batch of rows without errors, one of them with a rollNo the store already holds
C4_Witness ==
    /\ Transferred
    /\ transfer.success
    /\ Len(Batch) > 1
    /\ \E i \in 1..Len(Batch) : Get(Batch[i].mappedData, "rollNo") \in StoreRollNos

\* the non-error record of the batch that carries rollNo, 0 when there is none
CarrierOf(rollNo) ==
    LET at == {i \in 1..Len(Batch) :
                  ~IsErrorRecord(Batch[i]) /\ Get(Batch[i].mappedData, "rollNo") = rollNo}
    IN IF at = {} THEN 0 ELSE CHOOSE i \in at : TRUE

\* the record of students with the given rollNo (there is one)
WithRollNo(students, rollNo) ==
    students[CHOOSE i \in 1..Len(students) : Get(students[i], "rollNo") = rollNo]

\* C5: the resulting collection holds exactly: every existing record whose rollNo no
\* non-error record carries, unchanged; one merged record for every existing rollNo
\* a non-error record carries; one new record for every non-error record whose rollNo
\* the store lacks.  Nothing of the store and no non-error record is missing.
C5_ResultingCollection ==
    Transferred =>
        /\ \A i \in 1..Len(existingStudents) :
              LET s == existingStudents[i]
                  rollNo == Get(s, "rollNo")
              IN /\ Occurrences(transfer.allStudents, rollNo) = 1
                 /\ CarrierOf(rollNo) = 0 => WithRollNo(transfer.allStudents, rollNo) = s
                 /\ CarrierOf(rollNo) # 0 =>
                       WithRollNo(transfer.allStudents, rollNo)
                          = mergeStudentData(s, Batch[CarrierOf(rollNo)].mappedData,
                                             now - 1).merged
        /\ \A i \in InClass("insert") :
              /\ Occurrences(transfer.allStudents, Get(Batch[i].mappedData, "rollNo")) = 1
              /\ WithRollNo(transfer.allStudents, Get(Batch[i].mappedData, "rollNo"))
                    = Batch[i].mappedData
        /\ Len(transfer.allStudents)
              = Len(existingStudents) + Cardinality(InClass("insert"))

\* a store of two records, one merged and one left alone, and a record inserted
C5_Witness ==
    /\ Transferred
    /\ Len(existingStudents) = 2
    /\ Cardinality(InClass("update")) = 1
    /\ Cardinality(InClass("insert")) = 1

IsPrefix(p, q) == Len(p) <= Len(q) /\ SubSeq(q, 1, Len(p)) = p

\* C6: the audit trail is append-only: a transfer leaves the trail it found followed
\* by one new entry per record, getAuditTrail leaves it alone and returns its entries,
\* and a step that does not keep the former entries in place is clearAuditTrail.
C6_AuditTrailAppendOnly ==
    [][/\ (pc = "validated" /\ pc' = "transferred") =>
             /\ IsPrefix(auditTrail, auditTrail')
             /\ Len(auditTrail') = Len(auditTrail) + Len(Batch)
       /\ (trailCopy' # trailCopy) => (auditTrail' = auditTrail /\ trailCopy' = auditTrail)
       /\ ~IsPrefix(auditTrail, auditTrail') =>
             /\ auditTrail' = <<>>
             /\ UNCHANGED <<existingStudents, validation, transfer, trailCopy,
                            uuidCounter, now, pc, currentStep, mappingsProp, rawDataProp>>]_vars

\* the trail holds the entries of two transfers, made at different times
C6_Witness ==
    /\ Transferred
    /\ \E i, j \in 1..Len(auditTrail) :
          i < j /\ auditTrail[i].timestamp # auditTrail[j].timestamp
    /\ trailCopy = auditTrail

\* C7: validateAndMapData and transferDataToStudentTable leave the caller's collection
\* as it was: the same records in the same order, each with the same field values,
\* the elements of its lists included.
C7_CallerCollectionUntouched ==
    [][((pc = "idle" /\ pc' = "validated") \/ (pc = "validated" /\ pc' = "transferred")) =>
          /\ Len(existingStudents') = Len(existingStudents)
          /\ \A i \in 1..Len(existingStudents) :
                /\ DOMAIN existingStudents'[i] = DOMAIN existingStudents[i]
                /\ \A f \in DOMAIN existingStudents[i] :
                      existingStudents'[i][f] = existingStudents[i][f]]_vars

\* a transfer has merged into a record of the store: the merged record has other
\* skills and another cgpa than the record the store still holds
C7_Witness ==
    /\ Transferred
    /\ \E i \in 1..Len(existingStudents), j \in 1..Len(transfer.updatedStudents) :
          /\ Get(transfer.updatedStudents[j], "rollNo") = Get(existingStudents[i], "rollNo")
          /\ Get(transfer.updatedStudents[j], "skills") # Get(existingStudents[i], "skills")
          /\ Get(transfer.updatedStudents[j], "cgpa") # Get(existingStudents[i], "cgpa")
    /\ existingStudents \in StorePool

AllKeys == {KeyOrder[i] : i \in 1..Len(KeyOrder)}

\* C8: for a non-error record whose rollNo the store holds, the appended audit entry
\* has action 'update'; its changes hold field f exactly when the value of f differs,
\* compared structurally, between the existing record and the merged record, with old
\* the existing and new the merged value; duplicateCount counts these records.
\* Existing cgpa 8.0 and skills [Java] with incoming cgpa 8.5 and skills [Python] give
\* cgpa 8.5, skills [Java, Python] and changes.cgpa = {old 8.0, new 8.5}.
C8_UpdateAuditDiff ==
    Transferred =>
        /\ transfer.duplicateCount = Cardinality(InClass("update"))
        /\ \A i \in InClass("update") :
              LET rollNo == Get(Batch[i].mappedData, "rollNo")
                  existing == WithRollNo(existingStudents, rollNo)
                  merged == WithRollNo(transfer.updatedStudents, rollNo)
                  entry == NewEntries[i]
              IN /\ entry.action = "update"
                 /\ entry.recordId = Batch[i].id
                 /\ DOMAIN entry.changes \subseteq AllKeys
                 /\ \A f \in AllKeys :
                       /\ f \in DOMAIN entry.changes <=> Get(existing, f) # Get(merged, f)
                       /\ f \in DOMAIN entry.changes =>
                             /\ entry.changes[f].old = Get(existing, f)
                             /\ entry.changes[f].new = Get(merged, f)
                 /\ (/\ Get(existing, "cgpa") = Num(80)
                     /\ Get(existing, "skills") = StrArr(<<"Java">>)
                     /\ Get(Batch[i].mappedData, "cgpa") = Num(85)
                     /\ Get(Batch[i].mappedData, "skills") = StrArr(<<"Python">>))
                    => /\ Get(merged, "cgpa") = Num(85)
                       /\ Get(merged, "skills") = StrArr(<<"Java", "Python">>)
                       /\ entry.changes["cgpa"] = [old |-> Num(80), new |-> Num(85)]

\* the scenario, and next to it an update that leaves the skills as they were
C8_Witness ==
    /\ Transferred
    /\ \E i \in InClass("update") :
          /\ Get(WithRollNo(existingStudents, Get(Batch[i].mappedData, "rollNo")), "cgpa")
                = Num(80)
          /\ Get(Batch[i].mappedData, "cgpa") = Num(85)
          /\ "skills" \in DOMAIN NewEntries[i].changes
    /\ \E i \in InClass("update") :
          /\ "skills" \notin DOMAIN NewEntries[i].changes
          /\ "cgpa" \notin DOMAIN NewEntries[i].changes

-----------------------------------------------------------------------------
(* What is said of mergeRecords *)

Merged == mrResult # NoResult

Elements(q) == {q[i] : i \in 1..Len(q)}

NoRepeats(q) == \A i, j \in 1..Len(q) : i # j => q[i] # q[j]

FirstAt(q, x) == CHOOSE i \in 1..Len(q) : q[i] = x /\ \A j \in 1..(i - 1) : q[j] # x

\* u is the deduplicated union of a and b: no element twice, the elements of both,
\* in the order of their first occurrence in a followed by b
IsDedupUnion(u, a, b) ==
    /\ NoRepeats(u)
    /\ Elements(u) = Elements(a) \cup Elements(b)
    /\ \A i, j \in 1..Len(u) : i < j => FirstAt(a \o b, u[i]) < FirstAt(a \o b, u[j])

\* C9: under 'smart', for every field the incoming record defines the merged value is
\* the deduplicated union (existing elements first) when both sides hold a list, else
\* the incoming value when the existing value is falsy or the incoming value is
\* non-empty, else the existing value; fields of the existing record alone are kept.
C9_SmartMerge ==
    (Merged /\ mrStrategy = "smart") =>
        /\ DOMAIN mrResult = (DOMAIN mrExisting) \cup (DOMAIN mrIncoming)
        /\ \A k \in DOMAIN mrIncoming :
              LET e == Get(mrExisting, k)
                  v == mrIncoming[k]
              IN IF IsArray(e) /\ IsArray(v)
                 THEN IsArray(mrResult[k]) /\ IsDedupUnion(mrResult[k].v, e.v, v.v)
                 ELSE IF Falsy(e) \/ ~IsEmptyValue(v)
                 THEN mrResult[k] = v
                 ELSE mrResult[k] = e
        /\ \A k \in (DOMAIN mrExisting) \ (DOMAIN mrIncoming) : mrResult[k] = mrExisting[k]

\* two lists that share an element, next to an empty incoming value that gives way
C9_Witness ==
    /\ Merged
    /\ mrStrategy = "smart"
    /\ Get(mrExisting, "skills") = StrArr(<<"Java", "Python">>)
    /\ Get(mrIncoming, "skills") = StrArr(<<"Python", "Java">>)
    /\ Get(mrExisting, "cgpa") = Num(80)
    /\ Get(mrIncoming, "cgpa") = Null
    /\ mrResult["cgpa"] = Num(80)

\* C10, as claimed: mergeRecords(r, r, 'smart') equals r field by field for any
\* record r, records whose lists repeat an element included.
C10_SmartMergeIdempotent ==
    (Merged /\ mrStrategy = "smart" /\ mrIncoming = mrExisting) =>
        /\ DOMAIN mrResult = DOMAIN mrExisting
        /\ \A k \in DOMAIN mrExisting : mrResult[k] = mrExisting[k]

\* C10, amended: mergeRecords(r, r, 'smart') equals r field by field for any record r
\* none of whose lists repeats an element (falsy and empty field values included).
C10_SmartMergeIdempotentNoRepeats ==
    (/\ Merged
     /\ mrStrategy = "smart"
     /\ mrIncoming = mrExisting
     /\ \A k \in DOMAIN mrExisting : IsArray(mrExisting[k]) => NoRepeats(mrExisting[k].v))
    => /\ DOMAIN mrResult = DOMAIN mrExisting
       /\ \A k \in DOMAIN mrExisting : mrResult[k] = mrExisting[k]

\* a record with a list of two elements and a falsy cgpa merged with itself
C10_Witness ==
    /\ Merged
    /\ mrStrategy = "smart"
    /\ mrIncoming = mrExisting
    /\ Get(mrExisting, "skills") = StrArr(<<"Java", "Python">>)
    /\ Get(mrExisting, "cgpa") = Num(0)

\* C11: under 'preserve', for every field: when the existing record holds a non-empty
\* value the merged value is the existing value; when the existing record left the
\* field empty (absent, undefined, null or '') and the incoming record holds a
\* non-empty value, the merged value is the incoming value.
C11_Preserve ==
    (Merged /\ mrStrategy = "preserve") =>
        \A k \in (DOMAIN mrExisting) \cup (DOMAIN mrIncoming) :
            LET e == Get(mrExisting, k)
                v == Get(mrIncoming, k)
            IN /\ ~IsEmptyValue(e) => Get(mrResult, k) = e
               /\ (IsEmptyValue(e) /\ ~IsEmptyValue(v)) => Get(mrResult, k) = v

\* the fields detectConflicts reported
ConflictFields(conflicts) == {conflicts[i].field : i \in 1..Len(conflicts)}

\* C12: detectConflicts(existing, incoming) reports a conflict on field f exactly when
\* both records hold a non-empty value for f (not undefined, null or '') and the two
\* values differ, two lists with the same elements in the same order being equal.
C12_ConflictIffDiffer ==
    Merged =>
        \A f \in AllKeys :
            f \in ConflictFields(mrConflicts) <=>
                /\ ~IsEmptyValue(Get(mrExisting, f))
                /\ ~IsEmptyValue(Get(mrIncoming, f))
                /\ Get(mrExisting, f) # Get(mrIncoming, f)

\* C13: detectConflicts(a, b) and detectConflicts(b, a) report conflicts on the same
\* set of fields, and for each such field the existingValue / incomingValue pair of
\* the one is the swapped pair of the other.
C13_ConflictSymmetry ==
    Merged =>
        LET swapped == detectConflicts(mrIncoming, mrExisting)
        IN /\ ConflictFields(mrConflicts) = ConflictFields(swapped)
           /\ \A i \in 1..Len(mrConflicts), j \in 1..Len(swapped) :
                 mrConflicts[i].field = swapped[j].field =>
                    /\ mrConflicts[i].existingValue = swapped[j].incomingValue
                    /\ mrConflicts[i].incomingValue = swapped[j].existingValue

\* a conflict on cgpa, next to a field only one record holds and a field that is
\* empty on one side
C13_Witness ==
    /\ Merged
    /\ ConflictFields(mrConflicts) = {"cgpa"}
    /\ Get(mrExisting, "cgpa") = Num(80)
    /\ Get(mrIncoming, "cgpa") = Num(85)
    /\ "skills" \notin DOMAIN mrIncoming
    /\ IsArray(Get(mrExisting, "skills"))

-----------------------------------------------------------------------------
(* What is said of the save flow *)

\* the save flow has run to one of its ends
FlowEnded ==
    pc = "idle" /\ currentStep \in {"Validation failed", "Transfer failed", "Complete"}

\* the batch holds a failing row and a valid row
MixedBatch ==
    /\ \E i \in 1..Len(Batch) : IsErrorRecord(Batch[i])
    /\ \E i \in 1..Len(Batch) : ~IsErrorRecord(Batch[i])

\* the store holds a record that carries the mapped values of the row
StoreCarries(record) ==
    \E i \in 1..Len(existingStudents) :
        /\ Get(existingStudents[i], "rollNo") = Get(record.mappedData, "rollNo")
        /\ Get(existingStudents[i], "name") = Get(record.mappedData, "name")
        /\ Get(existingStudents[i], "cgpa") = Get(record.mappedData, "cgpa")

\* C15: when a batch holds both failing rows and valid rows, the save flow runs to
\* its end without throwing; at its end the store holds nothing of the failing rows
\* and every valid row of the batch has been inserted or merged into the store.
C15_MixedBatchSaved ==
    (FlowEnded /\ MixedBatch) =>
        \A i \in 1..Len(Batch) :
            IF IsErrorRecord(Batch[i])
            THEN Batch[i].id \notin IdsOf(existingStudents)
            ELSE StoreCarries(Batch[i])

-----------------------------------------------------------------------------
(* What is said of the uploader's merge *)

\* C14: an incoming record is matched with an existing record exactly when their
\* identifier values (PRN / rollNo) are equal, the generated id never deciding: an
\* upload leaves one record in the store for a rollNo the store held (the incoming
\* student merged into it) and adds one record for a rollNo the store did not hold.
C14_MatchedByIdentifier ==
    [][\A j \in 1..Len(upNewStudents') :
          LET rollNo == upNewStudents'[j].rollNo
          IN Occurrences(existingStudents', rollNo) =
                IF rollNo \in RollNosOf(existingStudents)
                THEN Occurrences(existingStudents, rollNo)
                ELSE 1]_vars

-----------------------------------------------------------------------------
(* What is said of columns that are not resolved *)

\* the columns whose ColumnMapping is pending, skip, or map with a blank field
UnresolvedColumns(mappings) ==
    {mappings[i].excelColumn : i \in {j \in 1..Len(mappings) :
        mappings[j].action # "map" \/ mappings[j].suggestedMapping = ""}}

\* the rows without the cells of the columns cols
RowsWithout(rows, cols) ==
    [i \in 1..Len(rows) |-> [c \in (DOMAIN rows[i]) \ cols |-> rows[i][c]]]

\* a validation result with the original rows of its records left out
WithoutOriginalData(result) ==
    [result EXCEPT !.processedRecords =
        [i \in 1..Len(result.processedRecords) |->
            [result.processedRecords[i] EXCEPT !.originalData = EmptyObject]]]

\* C16: a raw column whose ColumnMapping is 'pending' or 'skip' (or 'map' with a blank
\* field) contributes no value to mappedData: the validation of a sheet yields, for
\* every row, the mapped data, status, errors and warnings it yields for the sheet
\* without the cells of those columns; the raw values are kept in originalData alone.
C16_UnresolvedColumnsContributeNothing ==
    [][(pc = "idle" /\ pc' = "validated") =>
          /\ WithoutOriginalData(validation') =
                WithoutOriginalData(
                    validateAndMapData(
                        RowsWithout(rawDataProp', UnresolvedColumns(mappingsProp')),
                        mappingsProp', existingStudents, uuidCounter, now))
          /\ Len(validation'.processedRecords) = Len(rawDataProp')
          /\ \A i \in 1..Len(rawDataProp') :
                validation'.processedRecords[i].originalData = rawDataProp'[i]]_vars

\* a sheet validated with Dept skipped, CGPA pending and Skills mapped to no field:
\* a row holds values in the three cells, its mapped data holds no department, no
\* cgpa and no skill
C16_Witness ==
    /\ pc = "validated"
    /\ mappingsProp = UnresolvedMapping
    /\ \E i \in 1..Len(Batch) :
          /\ Batch[i].originalData["Dept"] = Str("CS")
          /\ Batch[i].originalData["CGPA"] = Str("8.5")
          /\ Batch[i].originalData["Skills"] = Str("Python")
          /\ "department" \notin DOMAIN Batch[i].mappedData
          /\ "cgpa" \notin DOMAIN Batch[i].mappedData
          /\ Get(Batch[i].mappedData, "skills") = Arr(<<>>)
          /\ Get(Batch[i].mappedData, "rollNo") = Str("CS001")

-----------------------------------------------------------------------------
(* What is said of the similarity of two strings *)

Scored == simScore # NoScore

Max2(a, b) == IF a >= b THEN a ELSE b

\* the Levenshtein distance: the least number of insertions, deletions and
\* substitutions that turn a into b
RECURSIVE Levenshtein(_, _)
Levenshtein(a, b) ==
    IF Len(a) = 0 THEN Len(b)
    ELSE IF Len(b) = 0 THEN Len(a)
    ELSE Min3(Levenshtein(Tail(a), b) + 1,
              Levenshtein(a, Tail(b)) + 1,
              Levenshtein(Tail(a), Tail(b)) + (IF Head(a) = Head(b) THEN 0 ELSE 1))

\* C19: editDistance(a, b) is the Levenshtein distance of a and b, so it lies between
\* 0 and max(len(a), len(b)); calculateSimilarity(a, b) is
\* 1 - editDistance(a, b) / max(len(a), len(b)), lies in [0, 1], is 1 when a = b
\* (both empty included) and below 1 when a differs from b.
C19_LevenshteinSimilarity ==
    Scored =>
        LET longest == Max2(Len(simStr1), Len(simStr2))
            d == simScore.distance
            sim == simScore.similarity
        IN /\ d = Levenshtein(simStr1, simStr2)
           /\ 0 <= d /\ d <= longest
           /\ sim.den > 0
           /\ longest > 0 => sim.num * longest = (longest - d) * sim.den
           /\ 0 <= sim.num /\ sim.num <= sim.den
           /\ simStr1 = simStr2 => sim.num = sim.den
           /\ simStr1 # simStr2 => sim.num < sim.den

\* two strings of different lengths, one deletion and one substitution apart
C19_Witness ==
    /\ Scored
    /\ simStr1 = "aab"
    /\ simStr2 = "ba"
    /\ simScore.distance = 2
    /\ simScore.similarity = Ratio(1, 3)

-----------------------------------------------------------------------------
(* What is said of the schema matcher *)

SchemaValidated == scResult # NoSchemaResult

\* the header is neither a known column nor held by the column mappings of the options
UnknownHeader(header) == ~Contains(knownColumns, header) /\ header \notin scOverrides

\* the similarity of the normalized header to a known column
SimilarityTo(header, known) ==
    calculateSimilarity(StripNonAlnum(ToLowerCase(header)), ToLowerCase(known))

\* a >= b for two quotients
AtLeast(a, b) == a.num * b.den >= b.num * a.den

\* the known columns of greatest similarity to the header
MostSimilar(header) ==
    {knownColumns[k] : k \in {i \in 1..Len(knownColumns) :
        \A j \in 1..Len(knownColumns) :
            AtLeast(SimilarityTo(header, knownColumns[i]),
                    SimilarityTo(header, knownColumns[j]))}}

\* the greatest similarity of the header to a known column exceeds 0.6
Accepted(header) ==
    \E known \in MostSimilar(header) :
        SimilarityTo(header, known).num * 10 > 6 * SimilarityTo(header, known).den

\* the ColumnMappings produced for the header
MappingsFor(header) ==
    {scResult.unmappedColumns[i] : i \in {j \in 1..Len(scResult.unmappedColumns) :
        scResult.unmappedColumns[j].excelColumn = header}}

\* C17: for every raw header that is neither a known field nor in the override
\* dictionary a ColumnMapping is produced; when the greatest similarity of the header
\* to a known field exceeds 0.6 it has action 'map' with that field, otherwise it has
\* action 'pending' with a blank field.
C17_ProposedMapping ==
    SchemaValidated =>
        \A h \in 1..Len(scHeaders) :
            UnknownHeader(scHeaders[h]) =>
                /\ MappingsFor(scHeaders[h]) # {}
                /\ \A mapping \in MappingsFor(scHeaders[h]) :
                      IF Accepted(scHeaders[h])
                      THEN /\ mapping.action = "map"
                           /\ mapping.suggestedMapping \in MostSimilar(scHeaders[h])
                      ELSE /\ mapping.action = "pending"
                           /\ mapping.suggestedMapping = ""

\* C18, as claimed: the header "Student Name " has, after normalization, a similarity
\* of at least 0.6 to the known field name and yields a ColumnMapping with action
\* 'map' and field 'name'.
C18_StudentNameMatched ==
    (SchemaValidated /\ Contains(scHeaders, "Student Name ")) =>
        /\ SimilarityTo("Student Name ", "name").num * 10
              >= 6 * SimilarityTo("Student Name ", "name").den
        /\ \A mapping \in MappingsFor("Student Name ") :
              mapping.action = "map" /\ mapping.suggestedMapping = "name"

\* C18, amended: the header "Student Name " has, after normalization, a similarity of
\* 4/11 to the known field name and of at most 0.6 to every known field; it yields a
\* ColumnMapping with action 'pending' and a blank field.
C18_StudentNameNotMatched ==
    (SchemaValidated /\ Contains(scHeaders, "Student Name ")) =>
        /\ SimilarityTo("Student Name ", "name") = Ratio(4, 11)
        /\ ~Accepted("Student Name ")
        /\ MappingsFor("Student Name ") # {}
        /\ \A mapping \in MappingsFor("Student Name ") :
              mapping.action = "pending" /\ mapping.suggestedMapping = ""

\* a header row with "Student Name " has been validated
C18_Witness ==
    /\ SchemaValidated
    /\ scHeaders = <<"Student Name ", "Name">>
    /\ Len(scResult.unmappedColumns) = 2
    /\ scResult.unmappedColumns[2].suggestedMapping = "name"

-----------------------------------------------------------------------------
(* What is said of a row whose identifier the store holds *)

\* C20: a row whose identifier the store holds and that has no other defect receives
\* a warning on the identifier field and no error; its validationStatus is 'warning'
\* (the status being 'error' when the row has an error, else 'warning' when it has a
\* warning, else 'valid'), and the warning is among the warnings of the batch.
C20_ExistingIdentifierWarns ==
    pc = "validated" =>
        \A i \in 1..Len(Batch) :
            /\ Batch[i].validationStatus =
                  IF Len(Batch[i].errors) > 0 THEN "error"
                  ELSE IF Len(Batch[i].warnings) > 0 THEN "warning"
                  ELSE "valid"
            /\ (/\ Get(Batch[i].mappedData, "rollNo") \in StoreRollNos
                /\ Len(Batch[i].errors) = 0)
               => /\ \E w \in 1..Len(Batch[i].warnings) :
                        Batch[i].warnings[w].field = "rollNo"
                  /\ Batch[i].validationStatus = "warning"
                  /\ \E w \in 1..Len(validation.warnings) :
                        /\ validation.warnings[w].field = "rollNo"
                        /\ validation.warnings[w].row = i

-----------------------------------------------------------------------------
(* What is said of a validated sheet *)

\* validateAndMapData has returned the records of the sheet
Validated == pc = "validated"

\* a mapped value that is empty: undefined, null or the empty string
EmptyMapped(x) == x \in {Undefined, Null, Str("")}

\* the record has an error of the severity for the field
HasError(record, field, severity) ==
    \E j \in 1..Len(record.errors) :
        record.errors[j].field = field /\ record.errors[j].severity = severity

RequiredFieldSet == {requiredFields[i] : i \in 1..Len(requiredFields)}

\* C21: every row in which the mapped value of a required field (rollNo, name,
\* department, year, cgpa) is empty has validationStatus 'error' and an error of
\* severity 'critical' for that field, whether the column was unmapped, the cell
\* empty, or the value failed conversion or validation.
C21_EmptyRequiredFieldIsCritical ==
    Validated =>
        \A i \in 1..Len(validation.processedRecords) :
            \A field \in RequiredFieldSet :
                EmptyMapped(Get(validation.processedRecords[i].mappedData, field)) =>
                    /\ validation.processedRecords[i].validationStatus = "error"
                    /\ HasError(validation.processedRecords[i], field, "critical")

\* a row all of whose columns are mapped, with an empty PRN cell, a department that
\* fails validation and a cgpa that cannot be converted: the three fields are empty
\* in mappedData
C21_Witness ==
    /\ Validated
    /\ mappingsProp = WideMapping
    /\ rawDataProp[1]["PRN"] = Str("")
    /\ rawDataProp[1]["Dept"] = Str("Civil")
    /\ rawDataProp[1]["CGPA"] = Str("abc")
    /\ \A field \in {"rollNo", "department", "cgpa"} :
          EmptyMapped(Get(validation.processedRecords[1].mappedData, field))
    /\ ~EmptyMapped(Get(validation.processedRecords[1].mappedData, "year"))

\* the members of PlacementStatus and of Student.gender
PlacementStatusValues ==
    {Str(v) : v \in {"not_eligible", "eligible", "placed", "multiple_offers",
                     "declined_offer", "blacklisted"}}

GenderValues == {Str("male"), Str("female"), Str("other")}

ListFields ==
    {"skills", "certifications", "testScores", "achievements", "internships", "projects"}

StructurallyComplete(mappedData) ==
    /\ \A field \in ListFields : Get(mappedData, field).t = "array"
    /\ Get(mappedData, "attendance").t = "number"
    /\ Get(mappedData, "backlogCount").t = "number"
    /\ Get(mappedData, "isEligibleForPlacements").t = "boolean"
    /\ Get(mappedData, "placementStatus") \in PlacementStatusValues
    /\ Get(mappedData, "gender") \in GenderValues

\* C22: every ProcessedRecord returned by validateAndMapData has structurally
\* complete mappedData whatever the columns and the cells of the sheet were: the six
\* list fields are lists, attendance and backlogCount are numbers,
\* isEligibleForPlacements is a boolean, placementStatus and gender are members of
\* their enumerations.
C22_StructurallyComplete ==
    Validated =>
        \A i \in 1..Len(validation.processedRecords) :
            StructurallyComplete(validation.processedRecords[i].mappedData)

\* the record holds a cgpa of zero, holds its other required fields, and no error
\* of the record is about a field other than cgpa
ZeroCgpaOtherwiseValid(record) ==
    /\ Get(record.mappedData, "cgpa") = Num(0)
    /\ \A field \in RequiredFieldSet \ {"cgpa"} : ~EmptyMapped(Get(record.mappedData, field))
    /\ \A j \in 1..Len(record.errors) : record.errors[j].field = "cgpa"

\* C28: a row whose cgpa is 0 (inside the inclusive range 0..10 of the rule) and
\* whose other required fields are present and valid does not get validationStatus
\* 'error'.
C28_ZeroCgpaIsNotMissing ==
    Validated =>
        \A i \in 1..Len(validation.processedRecords) :
            ZeroCgpaOtherwiseValid(validation.processedRecords[i]) =>
                validation.processedRecords[i].validationStatus # "error"

-----------------------------------------------------------------------------
(* What is said of the save flow *)

NoPending(columnMappings) ==
    \A i \in 1..Len(columnMappings) : columnMappings[i].action \in {"map", "skip"}

\* the step sets one column mapping to map or to skip and changes nothing else
IsCallerDecision ==
    /\ \E index \in 1..Len(mappingsProp), action \in {"map", "skip"} :
          mappingsProp' = [mappingsProp EXCEPT ![index].action = action]
    /\ UNCHANGED <<existingStudents, auditTrail, validation, transfer, trailCopy, heldTrail,
                   uuidCounter, now, pc, currentStep, rawDataProp>>

\* C23: in every run of the save flow validateAndMapData is invoked only in a state
\* where every column mapping has action 'map' or 'skip' (so validation and transfer
\* never start while a mapping is pending), and a mapping leaves 'pending' only in a
\* step in which the caller sets it to map or to skip.
C23_NoValidationWhilePending ==
    [][/\ (pc = "idle" /\ pc' = "validated") =>
             /\ NoPending(mappingsProp)
             /\ validation' = validateAndMapData(rawDataProp, mappingsProp,
                                                 existingStudents, uuidCounter, now)
       /\ (pc' = "transferred" /\ pc = "validated") => NoPending(mappingsProp)
       /\ (\E i \in 1..Len(mappingsProp) :
              mappingsProp[i].action = "pending" /\ mappingsProp'[i].action # "pending")
          => IsCallerDecision]_vars

\* the flow has validated and transferred a sheet, the caller having set both
\* columns that began pending
C23_Witness ==
    /\ pc = "transferred"
    /\ NoPending(mappingsProp)
    /\ validation.isValid
    /\ Len(validation.processedRecords) > 0

-----------------------------------------------------------------------------
(* What is said of an update and of the store the save flow commits *)

\* the fields for which the row of the record supplied a mapped value: the targets
\* of the mapped columns whose cell is not empty
Supplied(record) ==
    {MappingLookup(EmptyObject, mappingsProp)[c] :
        c \in {d \in DOMAIN MappingLookup(EmptyObject, mappingsProp) \cap
                     DOMAIN record.originalData :
                  ~IsEmptyValue(record.originalData[d])}}

\* C24: when transferDataToStudentTable updates an existing record, every field of
\* the existing record for which the incoming row supplied no mapped value keeps its
\* existing value in the merged record, the id, createdAt and the fields the incoming
\* record holds only as injected defaults included; only the fields mapped from the
\* row, and updatedAt, may change.
C24_UnsuppliedFieldsKept ==
    Transferred =>
        \A i \in InClass("update") :
            \A f \in DOMAIN WithRollNo(existingStudents, Get(Batch[i].mappedData, "rollNo")) :
                f \notin Supplied(Batch[i]) \cup {"updatedAt"} =>
                    Get(WithRollNo(transfer.updatedStudents,
                                   Get(Batch[i].mappedData, "rollNo")), f)
                    = WithRollNo(existingStudents, Get(Batch[i].mappedData, "rollNo"))[f]

\* the save flow has committed the store after a successful transfer
Committed == currentStep = "Complete"

\* C25: the store the save flow commits after a successful transfer equals the
\* collection transferDataToStudentTable computed and audited: for every updated
\* identifier the stored record holds the values of the merged record of the
\* transfer (the 'new' values of the audit entry where a field changed, so list
\* fields hold the union of existing and incoming elements, and the existing values
\* elsewhere).  updatedAt, which each of the two stamps with its own clock reading,
\* is left out of the comparison.
C25_StoreIsTransferred ==
    Committed =>
        \A i \in 1..Len(transfer.updatedStudents) :
            \A f \in AllKeys \ {"updatedAt"} :
                Get(WithRollNo(existingStudents, Get(transfer.updatedStudents[i], "rollNo")), f)
                = Get(transfer.updatedStudents[i], f)

-----------------------------------------------------------------------------
(* What is said of the audit trail a result carries *)

\* C26: the auditTrail of a DataTransferResult is a snapshot of the trail at the end
\* of its transfer: a later transferDataToStudentTable on the same DataMapper changes
\* neither the length nor the contents of the auditTrail of a result returned
\* earlier.
C26_ResultTrailIsSnapshot ==
    heldTrail.held =>
        /\ Len(heldTrail.auditTrail) = Len(heldTrail.returned)
        /\ heldTrail.auditTrail = heldTrail.returned

\* the counters a holder of a ProcessingStats reads
Counts(stats) ==
    [filesProcessed |-> stats.filesProcessed, recordsProcessed |-> stats.recordsProcessed,
     mergedRecords |-> stats.mergedRecords, conflicts |-> Len(stats.conflicts),
     errors |-> Len(stats.errors)]

\* C27: the ProcessingStats an invocation of processFiles has returned count only
\* its own files, records, merged records, conflicts and errors, whatever the
\* other invocation did in between: they read as those of the same files
\* processed alone.
C27_OwnCountsOnly ==
    \A p \in Invocations :
        calls[p].pc = "done" =>
            Counts(processingStats[calls[p].result]) = Counts(processStudentFiles(calls[p].files).stats)

\* the PRN cells of the rows of the files that pass validateExcelFile
ProcessedPrns(files) ==
    UNION {{ToStr(files[f].rows[i][PrnColumnIndex(files[f].headers)]) :
               i \in 1..Len(files[f].rows)} :
           f \in {g \in 1..Len(files) : validateExcelFile(files[g]).isValid}}

\* C30: after a processFiles that ran alone, getProcessedStudentRecords returns as
\* many records as there are distinct PRN values among the rows of the files that
\* passed validateExcelFile.
C30_ProcessedRowsRetrievable ==
    \A p \in Invocations :
        (/\ calls[p].pc = "done"
         /\ \A q \in Invocations \ {p} : calls[q].pc = "idle")
        => Len(getProcessedStudentRecords(cache)) = Cardinality(ProcessedPrns(calls[p].files))

\* the records the processor would hold for the files with the mappings applied
RecordsUnder(files, columnMappings) ==
    getProcessedStudentRecords(
        <<[key |-> "latest",
           value |-> organizeData(MapValues(processFiles(files, columnMappings).records))]>>)

\* the step is a save of resolved mappings that processed the files again
IsSaveOfResolved ==
    /\ Len(upNewColumns) > 0
    /\ NoPending(upNewColumns)
    /\ upToast' = "Mappings saved"
    /\ now' = now + 1

\* C29: when the caller has resolved every column mapping the uploader shows and
\* saves, the processing that follows keeps the decisions: afterwards no column
\* mapping shown is pending, and the records retrievable are those of the files
\* processed with the confirmed mappings applied to their rows.
C29_SavedDecisionsKept ==
    [][IsSaveOfResolved =>
          /\ NoPending(upNewColumns')
          /\ getProcessedStudentRecords(cache') = RecordsUnder(upFiles', upColumnMappings')]_vars

====
